---- MODULE Spec2Model ----
(***************************************************************************)
(* Resume / job relevance pipeline: text normaliser, job analyzer,        *)
(* relevance scorer.                                                       *)
(*                                                                         *)
(* Conventions.                                                            *)
(*  - A Python str is a sequence of one-character strings.                 *)
(*  - A Python float is an exact rational <<numerator, denominator>> in    *)
(*    lowest terms with a positive denominator; round(x, 2) is the integer *)
(*    number of hundredths nearest to x (ties to even).                    *)
(***************************************************************************)
EXTENDS Integers, Sequences, FiniteSets, TLC

VARIABLES
    text,          \* _clean_text: the input string (parse_resume: raw_text)
    cleaned,       \* _clean_text(text), or NotCalled
    recleaned,     \* _clean_text(cleaned), or NotCalled
    job_text,      \* analyze_job_description: its two arguments
    resume_data,   \* calculate_relevance_score: its resume_data argument
    job_data,      \* calculate_relevance_score: its job_data argument
    similarity,    \* what the TF-IDF cosine similarity returns per text pair
    calls,         \* what each scoring helper returned in the last call
    returned,      \* per outcome of the narrative call: the scorer's result
    resumes,       \* table resumes: the committed rows, the id is the index
    jobs,          \* table job_descriptions: the committed rows
    evaluations,   \* table evaluations: the committed rows
    feedback,      \* table feedback: the committed rows
    requests,      \* the HTTP requests: route, arguments, locals, response
    vectorizer,    \* self.vectorizer of a service: what its last fit left
    threads,       \* the calls running on one service instance
    file,          \* parse_resume: the declared type and what a reader finds
    parsed_data,   \* parse_resume(file_path, file_type): outcome, reader used
    evaluation_data, \* generate_feedback: its evaluation_data argument
    feedback_data  \* per outcome of the narrative call: generate_feedback's result

vars == <<text, cleaned, recleaned, job_text, resume_data, job_data,
          similarity, calls, returned, resumes, jobs, evaluations, feedback,
          requests, vectorizer, threads, file, parsed_data, evaluation_data,
          feedback_data>>

normVars == <<text, cleaned, recleaned>>
scoreVars == <<job_text, resume_data, job_data, similarity, calls, returned>>
storeVars == <<resumes, jobs, evaluations, feedback, requests>>
threadVars == <<vectorizer, threads>>
extractVars == <<file, parsed_data>>
feedbackVars == <<evaluation_data, feedback_data>>

\* A value that a function has not produced yet is the empty sequence, and a
\* produced value v is <<v>>.
NotCalled == <<>>
Value(v) == <<v>>
Unused == <<>>

\* The variables of the parts that a specification leaves out stay unused.
StoreUnused ==
    /\ resumes = Unused
    /\ jobs = Unused
    /\ evaluations = Unused
    /\ feedback = Unused
    /\ requests = Unused

ThreadsUnused == vectorizer = Unused /\ threads = Unused

ExtractUnused == file = Unused /\ parsed_data = Unused

FeedbackUnused == evaluation_data = Unused /\ feedback_data = Unused

NormUnused == text = Unused /\ cleaned = Unused /\ recleaned = Unused

ScoreUnused ==
    /\ job_text = Unused
    /\ resume_data = Unused
    /\ job_data = Unused
    /\ similarity = Unused
    /\ calls = Unused
    /\ returned = Unused

\* the variables outside the text pipeline (normaliser, analyzer, scorer)
serviceVars == <<storeVars, threadVars, extractVars, feedbackVars>>
ServicesUnused == StoreUnused /\ ThreadsUnused /\ ExtractUnused /\ FeedbackUnused

-----------------------------------------------------------------------------
(* Strings *)

Whitespace == {" ", "\n", "\t"}

UpperLetters == <<"A", "B", "C", "D", "E", "F", "G", "H", "I", "J", "K", "L", "M",
                 "N", "O", "P", "Q", "R", "S", "T", "U", "V", "W", "X", "Y", "Z">>

LowerLetters == <<"a", "b", "c", "d", "e", "f", "g", "h", "i", "j", "k", "l", "m",
                 "n", "o", "p", "q", "r", "s", "t", "u", "v", "w", "x", "y", "z">>

Digits == {"0", "1", "2", "3", "4", "5", "6", "7", "8", "9"}

Range(f) == {f[i] : i \in DOMAIN f}

\* \w
WordChars == Range(UpperLetters) \cup Range(LowerLetters) \cup Digits \cup {"_"}

KeptPunctuation == {"@", ".", "-"}

\* str.lower() on one character
LowerOf ==
    [c \in Range(UpperLetters) |->
        LowerLetters[CHOOSE i \in DOMAIN UpperLetters : UpperLetters[i] = c]]

LowerChar(c) == IF c \in DOMAIN LowerOf THEN LowerOf[c] ELSE c

\* str.lower()
Lower(s) == [i \in 1..Len(s) |-> LowerChar(s[i])]

\* str.strip(): drop leading and trailing whitespace
RECURSIVE LStrip(_)
LStrip(s) == IF s # <<>> /\ Head(s) \in Whitespace THEN LStrip(Tail(s)) ELSE s

RECURSIVE RStrip(_)
RStrip(s) ==
    IF s # <<>> /\ s[Len(s)] \in Whitespace
    THEN RStrip(SubSeq(s, 1, Len(s) - 1)) ELSE s

Strip(s) == RStrip(LStrip(s))

\* Python's `a in b` on two strings
IsSubstring(a, b) ==
    \E i \in 0..(Len(b) - Len(a)) : SubSeq(b, i + 1, i + Len(a)) = a

-----------------------------------------------------------------------------
(* Rationals *)

RECURSIVE GCD(_, _)
GCD(a, b) == IF b = 0 THEN a ELSE GCD(b, a % b)

Abs(n) == IF n < 0 THEN -n ELSE n

Norm(n, d) ==
    LET g == GCD(Abs(n), d) IN <<n \div g, d \div g>>

Rat(n, d) == Norm(n, d)
Zero == <<0, 1>>
One == <<1, 1>>
Half == <<1, 2>>

RAdd(p, q) == Norm(p[1] * q[2] + q[1] * p[2], p[2] * q[2])
RMul(p, q) == Norm(p[1] * q[1], p[2] * q[2])
RLe(p, q) == p[1] * q[2] <= q[1] * p[2]
RLt(p, q) == p[1] * q[2] < q[1] * p[2]
RMax(p, q) == IF RLe(p, q) THEN q ELSE p
RMin(p, q) == IF RLe(p, q) THEN p ELSE q

\* the digits of p/d after k more decimal places: <<floor, remainder>>
RECURSIVE Shift(_, _, _, _)
Shift(f, r, d, k) ==
    IF k = 0 THEN <<f, r>>
    ELSE Shift(f * 10 + (r * 10) \div d, (r * 10) % d, d, k - 1)

\* round(q * 100, 2), in hundredths
Round2Pct(q) ==
    LET d == q[2]
        s == Shift(q[1] \div d, q[1] % d, d, 4)
        f == s[1]
        r == s[2]
    IN  IF 2 * r < d THEN f
        ELSE IF 2 * r > d THEN f + 1
        ELSE IF f % 2 = 0 THEN f ELSE f + 1

-----------------------------------------------------------------------------
(* Text normaliser: ResumeParser._clean_text, JobAnalyzer._clean_text *)

\* re.sub(r'\s+', ' ', text)
RECURSIVE CollapseWhitespace(_)
CollapseWhitespace(s) ==
    IF s = <<>> THEN <<>>
    ELSE IF Head(s) \in Whitespace
         THEN <<" ">> \o CollapseWhitespace(LStrip(s))
         ELSE <<Head(s)>> \o CollapseWhitespace(Tail(s))

\* re.sub(r'[^\w\s@.-]', ' ', text)
ReplaceSpecial(s) ==
    [i \in 1..Len(s) |->
        IF s[i] \in WordChars \cup Whitespace \cup KeptPunctuation
        THEN s[i] ELSE " "]

CleanText(s) == ReplaceSpecial(Strip(CollapseWhitespace(s)))

MaxTextLen == 3

TextAlphabet == {"a", " ", "\n", "!", "-"}

RECURSIVE StringsUpTo(_, _)
StringsUpTo(alphabet, n) ==
    IF n = 0 THEN {<<>>}
    ELSE LET shorter == StringsUpTo(alphabet, n - 1)
         IN  shorter \cup {Append(s, c) : s \in shorter, c \in alphabet}

NormInit ==
    /\ ServicesUnused
    /\ text \in StringsUpTo(TextAlphabet, MaxTextLen)
    /\ cleaned = NotCalled
    /\ recleaned = NotCalled
    /\ job_text = Unused
    /\ resume_data = Unused
    /\ job_data = Unused
    /\ similarity = Unused
    /\ calls = Unused
    /\ returned = Unused

\* cleaned_text = self._clean_text(raw_text)
Clean ==
    /\ cleaned = NotCalled
    /\ cleaned' = Value(CleanText(text))
    /\ UNCHANGED <<text, recleaned>>
    /\ UNCHANGED scoreVars
    /\ UNCHANGED serviceVars

\* the normaliser applied to its own output
CleanAgain ==
    /\ cleaned # NotCalled
    /\ recleaned = NotCalled
    /\ recleaned' = Value(CleanText(cleaned[1]))
    /\ UNCHANGED <<text, cleaned>>
    /\ UNCHANGED scoreVars
    /\ UNCHANGED serviceVars

NormNext == Clean \/ CleanAgain

SpecNorm == NormInit /\ [][NormNext]_vars

\* C9: the normaliser is idempotent: normalising its own output changes nothing.
NormalizeIdempotent ==
    recleaned # NotCalled => recleaned = cleaned

\* C10: the normaliser's output has no leading or trailing whitespace, no two
\* consecutive whitespace characters, and only word characters, single spaces,
\* '@', '.' and '-'.
NormalizedShape ==
    cleaned # NotCalled =>
        LET out == cleaned[1] IN
        /\ out # <<>> => (out[1] \notin Whitespace /\ out[Len(out)] \notin Whitespace)
        /\ \A i \in 1..(Len(out) - 1) :
              ~(out[i] \in Whitespace /\ out[i + 1] \in Whitespace)
        /\ \A i \in 1..Len(out) :
              out[i] \in WordChars \cup {" "} \cup KeptPunctuation

-----------------------------------------------------------------------------
(* Python values of more than one kind *)

\* a function's outcome: the value it returns, or the exception it raises
Ok(v) == [value |-> v]
Raise(e) == [exception |-> e]
IsOk(r) == DOMAIN r = {"value"}
IsRaise(r) == DOMAIN r = {"exception"}

\* what dict.get finds under a key that holds an optional integer
PyAbsent == [absent |-> TRUE]
PyNone == [none |-> TRUE]
PyInt(n) == [int |-> n]
IsInt(v) == DOMAIN v = {"int"}

\* what dict.get finds under a key that holds an optional string
PyStr(s) == [str |-> s]
IsStr(v) == DOMAIN v = {"str"}

\* a job_data without the key 'experience_level'
AbsentLevel == "(absent)"

-----------------------------------------------------------------------------
(* RelevanceScorer *)

\* scoring weights that favour the skills component and no longer sum to 1
ScoringWeightsSkewed ==
    [skills_match |-> 45, experience_match |-> 25, education_match |-> 15,
     certification_match |-> 10, project_match |-> 10, semantic_similarity |-> 5]

\* self.scoring_weights, in hundredths
ScoringWeights ==
    [skills_match |-> 35, experience_match |-> 25, education_match |-> 15,
     certification_match |-> 10, project_match |-> 10, semantic_similarity |-> 5]

Weight(component) == Rat(ScoringWeights[component], 100)

Levels == {"entry", "mid", "senior", "lead"}

\* self.experience_scoring, in tenths: [resume level][job level]
ExperienceScoring ==
    [entry  |-> [entry |-> 10, mid |-> 7,  senior |-> 4,  lead |-> 2],
     mid    |-> [entry |-> 6,  mid |-> 10, senior |-> 8,  lead |-> 5],
     senior |-> [entry |-> 3,  mid |-> 7,  senior |-> 10, lead |-> 8],
     lead   |-> [entry |-> 2,  mid |-> 5,  senior |-> 8,  lead |-> 10]]

\* seniority_keywords, in the order the dictionary is iterated
SeniorityOrder == <<"lead", "senior", "mid", "entry">>

SeniorityKeywords ==
    [lead   |-> {<<"l", "e", "a", "d">>,
                <<"p", "r", "i", "n", "c", "i", "p", "a", "l">>,
                <<"s", "t", "a", "f", "f">>,
                <<"a", "r", "c", "h", "i", "t", "e", "c", "t">>,
                <<"m", "a", "n", "a", "g", "e", "r">>,
                <<"d", "i", "r", "e", "c", "t", "o", "r">>},
     senior |-> {<<"s", "e", "n", "i", "o", "r">>,
                <<"s", "r">>,
                <<"l", "e", "a", "d">>},
     mid    |-> {<<"m", "i", "d">>,
                <<"i", "n", "t", "e", "r", "m", "e", "d", "i", "a", "t", "e">>,
                <<"e", "x", "p", "e", "r", "i", "e", "n", "c", "e", "d">>},
     entry  |-> {<<"j", "u", "n", "i", "o", "r">>,
                <<"j", "r">>,
                <<"e", "n", "t", "r", "y">>,
                <<"t", "r", "a", "i", "n", "e", "e">>,
                <<"i", "n", "t", "e", "r", "n">>}]

\* job_skill == resume_skill or job_skill in resume_skill or resume_skill in job_skill
SkillsOverlap(job_skill, resume_skill) ==
    \/ job_skill = resume_skill
    \/ IsSubstring(job_skill, resume_skill)
    \/ IsSubstring(resume_skill, job_skill)

\* _calculate_skill_overlap without the .strip() of the two lists
CalculateSkillOverlapNoStrip(resume_skills, job_skills) ==
    IF job_skills = <<>> THEN Zero
    ELSE LET matches ==
                 Cardinality({j \in DOMAIN job_skills :
                     \E r \in DOMAIN resume_skills :
                         SkillsOverlap(Lower(job_skills[j]), Lower(resume_skills[r]))})
         IN  Rat(matches, Len(job_skills))

\* _calculate_skill_overlap
CalculateSkillOverlap(resume_skills, job_skills) ==
    IF job_skills = <<>> THEN Zero
    ELSE LET resume_skills_lower ==
                 [i \in DOMAIN resume_skills |-> Strip(Lower(resume_skills[i]))]
             job_skills_lower ==
                 [i \in DOMAIN job_skills |-> Strip(Lower(job_skills[i]))]
             matches ==
                 Cardinality({j \in DOMAIN job_skills_lower :
                     \E r \in DOMAIN resume_skills_lower :
                         SkillsOverlap(job_skills_lower[j], resume_skills_lower[r])})
         IN  Rat(matches, Len(job_skills))

\* _calculate_skills_match_score
CalculateSkillsMatchScore(resume, job) ==
    LET resume_skills == resume.skills
        job_required_skills == job.skills_required
        job_preferred_skills == job.skills_preferred
        required_match == CalculateSkillOverlap(resume_skills, job_required_skills)
        preferred_match == CalculateSkillOverlap(resume_skills, job_preferred_skills)
    IN  IF job_required_skills = <<>> /\ job_preferred_skills = <<>> THEN Half
        ELSE IF job_required_skills # <<>> /\ job_preferred_skills # <<>>
             THEN RAdd(RMul(required_match, Rat(7, 10)),
                       RMul(preferred_match, Rat(3, 10)))
        ELSE IF job_required_skills # <<>> THEN required_match
        ELSE preferred_match

\* any(keyword in title for keyword in keywords), for some entry, for `level`
LevelMatches(experience, level) ==
    \E i \in DOMAIN experience :
        \E keyword \in SeniorityKeywords[level] :
            IsSubstring(keyword, Lower(experience[i].title))

\* _determine_resume_experience_level with the group 'senior' looked at first
DetermineLevelSeniorFirst(experience) ==
    IF experience = <<>> THEN "entry"
    ELSE IF LevelMatches(experience, "senior") THEN "senior"
    ELSE IF LevelMatches(experience, "lead") THEN "lead"
    ELSE IF LevelMatches(experience, "mid") THEN "mid"
    ELSE IF LevelMatches(experience, "entry") THEN "entry"
    ELSE IF Len(experience) >= 5 THEN "senior"
    ELSE IF Len(experience) >= 2 THEN "mid"
    ELSE "entry"

\* _determine_resume_experience_level
DetermineResumeExperienceLevel(experience) ==
    IF experience = <<>> THEN "entry"
    ELSE IF \E k \in DOMAIN SeniorityOrder :
                LevelMatches(experience, SeniorityOrder[k])
         THEN SeniorityOrder[
                  CHOOSE k \in DOMAIN SeniorityOrder :
                      /\ LevelMatches(experience, SeniorityOrder[k])
                      /\ \A h \in 1..(k - 1) :
                             ~LevelMatches(experience, SeniorityOrder[h])]
    ELSE IF Len(experience) >= 5 THEN "senior"
    ELSE IF Len(experience) >= 2 THEN "mid"
    ELSE "entry"

\* _calculate_resume_experience_years
CalculateResumeExperienceYears(experience) ==
    IF Len(experience) * 2 <= 20 THEN Len(experience) * 2 ELSE 20

\* _calculate_years_match_score; job_years is an int or None
CalculateYearsMatchScore(resume_years, job_years) ==
    IF IsInt(job_years) /\ job_years.int = 0 THEN Ok(One)
    ELSE IF ~IsInt(job_years) THEN Raise("TypeError")
    ELSE IF resume_years >= job_years.int THEN Ok(One)
    ELSE Ok(RMax(Zero, Rat(resume_years, job_years.int)))

\* dict.get(key, default)
Get(field, default) == IF field = PyAbsent THEN default ELSE field

\* _calculate_experience_match_score with equal weights for level and years
ExperienceMatchScoreEvenWeights(resume, job) ==
    LET job_experience_level ==
            IF job.experience_level = AbsentLevel THEN "mid"
            ELSE job.experience_level
        level_score ==
            IF job_experience_level \in Levels
            THEN Rat(ExperienceScoring[DetermineResumeExperienceLevel(resume.experience)]
                                      [job_experience_level], 10)
            ELSE Half
        years_score ==
            CalculateYearsMatchScore(CalculateResumeExperienceYears(resume.experience),
                                     Get(job.experience_years, PyInt(0)))
    IN  IF IsRaise(years_score) THEN years_score
        ELSE Ok(RAdd(RMul(level_score, Half), RMul(years_score.value, Half)))

\* _calculate_experience_match_score
CalculateExperienceMatchScore(resume, job) ==
    LET resume_experience == resume.experience
        job_experience_level ==
            IF job.experience_level = AbsentLevel THEN "mid"
            ELSE job.experience_level
        job_experience_years == Get(job.experience_years, PyInt(0))
        resume_experience_level == DetermineResumeExperienceLevel(resume_experience)
        level_score ==
            IF job_experience_level \in Levels
            THEN Rat(ExperienceScoring[resume_experience_level][job_experience_level], 10)
            ELSE Half
        resume_years == CalculateResumeExperienceYears(resume_experience)
        years_score == CalculateYearsMatchScore(resume_years, job_experience_years)
    IN  IF IsRaise(years_score) THEN years_score
        ELSE Ok(RAdd(RMul(level_score, Rat(6, 10)),
                     RMul(years_score.value, Rat(4, 10))))

\* _calculate_education_match_score without the .lower() calls
CalculateEducationMatchScoreCaseSensitive(resume, job) ==
    LET resume_education == resume.education
        job_education == job.education_required
    IN  IF ~IsStr(job_education) \/ job_education.str = <<>> THEN Half
        ELSE IF \E i \in DOMAIN resume_education :
                    LET degree == resume_education[i].degree IN
                    \/ IsSubstring(job_education.str, degree)
                    \/ IsSubstring(degree, job_education.str)
             THEN One
        ELSE Zero

\* _calculate_education_match_score
CalculateEducationMatchScore(resume, job) ==
    LET resume_education == resume.education
        job_education == job.education_required
    IN  IF ~IsStr(job_education) \/ job_education.str = <<>> THEN Half
        ELSE IF \E i \in DOMAIN resume_education :
                    LET degree == Lower(resume_education[i].degree) IN
                    \/ IsSubstring(Lower(job_education.str), degree)
                    \/ IsSubstring(degree, Lower(job_education.str))
             THEN One
        ELSE Zero

\* _calculate_certification_match_score
CalculateCertificationMatchScore(resume, job) ==
    IF job.certifications_required = <<>> THEN Half
    ELSE CalculateSkillOverlap(resume.certifications, job.certifications_required)

\* _calculate_text_similarity: the cosine similarity of the two TF-IDF vectors,
\* which the vectorizer decides; 0.0 when it raises
CalculateTextSimilarity(sim) == sim

\* _calculate_project_match_score
CalculateProjectMatchScore(resume, job, sim) ==
    IF resume.projects = <<>> \/ job.keywords = <<>> THEN Half
    ELSE CalculateTextSimilarity(sim.project)

\* _calculate_semantic_similarity
CalculateSemanticSimilarity(resume, job, sim) ==
    IF resume.cleaned_text = <<>> \/ job.cleaned_text = <<>> THEN Zero
    ELSE CalculateTextSimilarity(sim.semantic)

\* _determine_fit_verdict
DetermineFitVerdict(score) ==
    IF RLe(Rat(8, 10), score) THEN "high"
    ELSE IF RLe(Rat(6, 10), score) THEN "medium"
    ELSE "low"

\* _extract_skill_matches: (matched, missing)
IsMatchedSkill(resume_skills, job_skill) ==
    LET job_skill_lower == Lower(job_skill) IN
    \E r \in DOMAIN resume_skills :
        \/ IsSubstring(job_skill_lower, Lower(resume_skills[r]))
        \/ IsSubstring(Lower(resume_skills[r]), job_skill_lower)

ExtractSkillMatches(resume, job) ==
    [matched |-> SelectSeq(job.skills_required,
                           LAMBDA j : IsMatchedSkill(resume.skills, j)),
     missing |-> SelectSeq(job.skills_required,
                           LAMBDA j : ~IsMatchedSkill(resume.skills, j))]

\* _extract_experience_matches
ExtractExperienceMatches(resume, job) == [matched |-> <<>>, missing |-> <<>>]

\* list[:n]
Take(list, n) == SubSeq(list, 1, IF Len(list) < n THEN Len(list) ELSE n)

\* _identify_strengths; each message is the values formatted into it
IdentifyStrengths(resume, job) ==
    LET matched_skills == ExtractSkillMatches(resume, job).matched IN
    (IF Len(matched_skills) > 5
     THEN <<[strength |-> "skills", count |-> Len(matched_skills)]>> ELSE <<>>)
    \o (IF Len(resume.experience) > 3
        THEN <<[strength |-> "experience", count |-> Len(resume.experience)]>>
        ELSE <<>>)
    \o (IF resume.certifications # <<>>
        THEN <<[strength |-> "certifications", count |-> Len(resume.certifications)]>>
        ELSE <<>>)

\* the experience-shortfall entry of the weaknesses
ExperienceShortfall(years) == [weakness |-> "experience", years |-> years]

\* _identify_weaknesses
IdentifyWeaknesses(resume, job) ==
    LET missing_skills == ExtractSkillMatches(resume, job).missing
        job_experience_years == Get(job.experience_years, PyInt(0))
        skills_part ==
            IF missing_skills # <<>>
            THEN <<[weakness |-> "skills", skills |-> Take(missing_skills, 3)]>>
            ELSE <<>>
    IN  IF ~IsInt(job_experience_years) THEN Raise("TypeError")
        ELSE IF /\ job_experience_years.int > 0
                /\ Len(resume.experience) * 2 < job_experience_years.int
             THEN Ok(skills_part \o <<ExperienceShortfall(job_experience_years.int)>>)
        ELSE Ok(skills_part)

\* the outcomes of self.openai_client.chat.completions.create
AiOutcomes == {"responds", "raises"}

AiFallback == "AI analysis unavailable at this time."

\* _generate_ai_analysis
GenerateAiAnalysis(outcome) ==
    IF outcome = "responds" THEN "narrative" ELSE AiFallback

\* _calculate_ai_confidence
CalculateAiConfidence(resume, job) ==
    LET confidence ==
            5 + (IF resume.skills # <<>> THEN 1 ELSE 0)
              + (IF resume.experience # <<>> THEN 1 ELSE 0)
              + (IF resume.education # <<>> THEN 1 ELSE 0)
              + (IF job.skills_required # <<>> THEN 1 ELSE 0)
              + (IF job.description # <<>> THEN 1 ELSE 0)
    IN  RMin(Rat(confidence, 10), One)

\* the six component scores, as the helpers return them; NotCalled for a helper
\* that an earlier exception kept from running
ComponentScores(resume, job, sim) ==
    LET experience == CalculateExperienceMatchScore(resume, job)
        After(v) == IF IsRaise(experience) THEN NotCalled ELSE Value(v)
    IN  [skills_score |-> CalculateSkillsMatchScore(resume, job),
         years_score |->
             CalculateYearsMatchScore(
                 CalculateResumeExperienceYears(resume.experience),
                 Get(job.experience_years, PyInt(0))),
         experience_score |-> experience,
         education_score |-> After(CalculateEducationMatchScore(resume, job)),
         certification_score |-> After(CalculateCertificationMatchScore(resume, job)),
         project_score |-> After(CalculateProjectMatchScore(resume, job, sim)),
         semantic_score |-> After(CalculateSemanticSimilarity(resume, job, sim))]

\* overall_score = the weighted sum of the components
OverallScore(c) ==
    RAdd(RMul(c.skills_score, Weight("skills_match")),
    RAdd(RMul(c.experience_score.value, Weight("experience_match")),
    RAdd(RMul(c.education_score[1], Weight("education_match")),
    RAdd(RMul(c.certification_score[1], Weight("certification_match")),
    RAdd(RMul(c.project_score[1], Weight("project_match")),
         RMul(c.semantic_score[1], Weight("semantic_similarity")))))))

\* the scores handed to _generate_ai_analysis: the components and the overall
\* score, before rounding
ScoresDict(resume, job, sim) ==
    LET c == ComponentScores(resume, job, sim) IN
    [skills_score |-> c.skills_score,
     years_score |-> c.years_score,
     experience_score |-> c.experience_score,
     education_score |-> c.education_score,
     certification_score |-> c.certification_score,
     project_score |-> c.project_score,
     semantic_score |-> c.semantic_score,
     overall_score |-> IF IsRaise(c.experience_score) THEN NotCalled
                       ELSE Value(OverallScore(c))]

\* calculate_relevance_score
CalculateRelevanceScore(resume, job, sim, ai) ==
    LET c == ComponentScores(resume, job, sim)
        overall_score == OverallScore(c)
        skill_matches == ExtractSkillMatches(resume, job)
        experience_matches == ExtractExperienceMatches(resume, job)
        weaknesses == IdentifyWeaknesses(resume, job)
    IN  IF IsRaise(c.experience_score) THEN c.experience_score
        ELSE IF IsRaise(weaknesses) THEN weaknesses
        ELSE Ok([relevance_score |-> Round2Pct(overall_score),
                 fit_verdict |-> DetermineFitVerdict(overall_score),
                 skills_match_score |-> Round2Pct(c.skills_score),
                 experience_match_score |-> Round2Pct(c.experience_score.value),
                 education_match_score |-> Round2Pct(c.education_score[1]),
                 certification_match_score |-> Round2Pct(c.certification_score[1]),
                 project_match_score |-> Round2Pct(c.project_score[1]),
                 semantic_similarity_score |-> Round2Pct(c.semantic_score[1]),
                 matched_skills |-> skill_matches.matched,
                 missing_skills |-> skill_matches.missing,
                 matched_experience |-> experience_matches.matched,
                 missing_experience |-> experience_matches.missing,
                 strengths |-> IdentifyStrengths(resume, job),
                 weaknesses |-> weaknesses.value,
                 ai_analysis |-> GenerateAiAnalysis(ai),
                 ai_confidence |-> CalculateAiConfidence(resume, job)])

-----------------------------------------------------------------------------
(* The scorer's inputs *)

\* a resume_data / job_data the scorer reads nothing from
EmptyResume ==
    [skills |-> <<>>, experience |-> <<>>, education |-> <<>>,
     certifications |-> <<>>, projects |-> <<>>, cleaned_text |-> <<>>]

EmptyJob ==
    [skills_required |-> <<>>, skills_preferred |-> <<>>,
     experience_level |-> AbsentLevel, experience_years |-> PyAbsent,
     education_required |-> PyAbsent, certifications_required |-> <<>>,
     keywords |-> <<>>, cleaned_text |-> <<>>, description |-> <<>>]

NoSimilarity == [project |-> Zero, semantic |-> Zero]

\* n entries with the same title
RECURSIVE Repeat(_, _)
Repeat(x, n) == IF n = 0 THEN <<>> ELSE <<x>> \o Repeat(x, n - 1)

RECURSIVE ListsUpTo(_, _)
ListsUpTo(universe, n) ==
    IF n = 0 THEN {<<>>}
    ELSE LET shorter == ListsUpTo(universe, n - 1)
         IN  shorter \cup {Append(l, x) : l \in shorter, x \in universe}

\* skill names: differing case, surrounding whitespace, one inside another,
\* and one that overlaps none of the others
SkillUniverse == {<<" ", "A">>, <<"a", " ">>, <<"a", "b">>, <<"c">>}

PreferredSamples == {<<>>, <<<<"a", "b">>>>, <<<<"c">>, <<" ", "A">>>>}

MaxSkills == 2

SkillsInit ==
    /\ ServicesUnused
    /\ \E r \in ListsUpTo(SkillUniverse, MaxSkills),
          q \in ListsUpTo(SkillUniverse, MaxSkills),
          pr \in PreferredSamples :
          /\ resume_data = [EmptyResume EXCEPT !.skills = r]
          /\ job_data = [EmptyJob EXCEPT !.skills_required = q,
                                         !.skills_preferred = pr]
    /\ similarity = NoSimilarity
    /\ calls = NotCalled
    /\ returned = [ai \in AiOutcomes |-> NotCalled]
    /\ job_text = Unused
    /\ text = Unused
    /\ cleaned = Unused
    /\ recleaned = Unused

\* one call of calculate_relevance_score(resume_data, job_data), in which the
\* narrative call ends as `ai`
Score(ai) ==
    /\ returned # Unused
    /\ resume_data # Unused
    /\ job_data # Unused
    /\ ~IsRaise(resume_data)
    /\ returned[ai] = NotCalled
    /\ returned' = [returned EXCEPT ![ai] =
           Value(CalculateRelevanceScore(resume_data, job_data, similarity, ai))]
    /\ calls' = Value(ScoresDict(resume_data, job_data, similarity))
    /\ UNCHANGED <<job_text, resume_data, job_data, similarity>>
    /\ UNCHANGED normVars
    /\ UNCHANGED serviceVars

ScoreNext == \E ai \in AiOutcomes : Score(ai)

SpecSkills == SkillsInit /\ [][ScoreNext]_vars

-----------------------------------------------------------------------------
(* Skills score and matched / missing skills *)

\* the fraction of the job skills j for which some resume skill r equals j,
\* contains j or is contained in j, both passed through `normal`
OverlapFraction(R, J, normal(_)) ==
    Rat(Cardinality({j \in DOMAIN J : \E r \in DOMAIN R :
            \/ normal(R[r]) = normal(J[j])
            \/ IsSubstring(normal(J[j]), normal(R[r]))
            \/ IsSubstring(normal(R[r]), normal(J[j]))}),
        Len(J))

\* 0.7 * required + 0.3 * preferred, one list alone, or the neutral 0.5
SkillsFormula(R, Q, P, normal(_)) ==
    IF Q # <<>> /\ P # <<>>
    THEN RAdd(RMul(Rat(7, 10), OverlapFraction(R, Q, normal)),
              RMul(Rat(3, 10), OverlapFraction(R, P, normal)))
    ELSE IF Q # <<>> THEN OverlapFraction(R, Q, normal)
    ELSE IF P # <<>> THEN OverlapFraction(R, P, normal)
    ELSE Half

LowerStripped(x) == Strip(Lower(x))

\* C3 as stated: the skills score is 0.7*overlap(R,Q) + 0.3*overlap(R,P), one
\* overlap alone, or 0.5, where the overlap compares the skills case-insensitively.
SkillsScoreCaseInsensitive ==
    calls # NotCalled =>
        calls[1].skills_score =
            SkillsFormula(resume_data.skills, job_data.skills_required,
                          job_data.skills_preferred, Lower)

\* C3 as amended: the same, with the overlap comparing the skills
\* case-insensitively after stripping their surrounding whitespace.
SkillsScoreFormula ==
    calls # NotCalled =>
        calls[1].skills_score =
            SkillsFormula(resume_data.skills, job_data.skills_required,
                          job_data.skills_preferred, LowerStripped)

\* C3 witness: a scored job with required and preferred skills, some matched
SkillsScoreWitness ==
    /\ calls # NotCalled
    /\ job_data.skills_required # <<>>
    /\ job_data.skills_preferred # <<>>
    /\ Len(resume_data.skills) = 2
    /\ RLt(Zero, calls[1].skills_score)
    /\ RLt(calls[1].skills_score, One)

\* a subsequence of `list`: it keeps the order of `list`
RECURSIVE IsSubsequence(_, _)
IsSubsequence(sub, list) ==
    IF sub = <<>> THEN TRUE
    ELSE IF list = <<>> THEN FALSE
    ELSE IF Head(sub) = Head(list) THEN IsSubsequence(Tail(sub), Tail(list))
    ELSE IsSubsequence(sub, Tail(list))

\* C4: matched_skills and missing_skills partition the required skills in job
\* order; a required skill is matched iff it overlaps a resume skill under the
\* rule the skills score uses; so with required and no preferred skills the
\* skills score is len(matched_skills) / len(required skills).
MatchedMissingAgreeWithScore ==
    \A ai \in AiOutcomes :
        (returned[ai] # NotCalled /\ IsOk(returned[ai][1])) =>
            LET result == returned[ai][1].value
                Q == job_data.skills_required
                R == resume_data.skills
                Overlaps(j) == \E r \in DOMAIN R :
                    SkillsOverlap(LowerStripped(j), LowerStripped(R[r]))
            IN  /\ IsSubsequence(result.matched_skills, Q)
                /\ IsSubsequence(result.missing_skills, Q)
                /\ Len(result.matched_skills) + Len(result.missing_skills) = Len(Q)
                /\ \A i \in DOMAIN result.matched_skills :
                       Overlaps(result.matched_skills[i])
                /\ \A i \in DOMAIN result.missing_skills :
                       ~Overlaps(result.missing_skills[i])
                /\ (Q # <<>> /\ job_data.skills_preferred = <<>>) =>
                       calls[1].skills_score = Rat(Len(result.matched_skills), Len(Q))

-----------------------------------------------------------------------------
(* Experience score *)

\* titles: no seniority keyword, a keyword in upper case, an entry-level keyword
TitleSamples == {<<"d", "e", "v">>,
                 <<"S", "r", " ", "d", "e", "v">>,
                 <<"i", "n", "t", "e", "r", "n">>}

MaxExperience == 11

MaxJobYears == 21

JobYearsValues == {PyAbsent, PyNone} \cup {PyInt(y) : y \in 0..MaxJobYears}

ExperienceInit ==
    /\ ServicesUnused
    /\ \E n \in 0..MaxExperience, t \in TitleSamples,
          level \in Levels \cup {AbsentLevel}, years \in JobYearsValues :
          /\ resume_data = [EmptyResume EXCEPT !.experience = Repeat([title |-> t], n)]
          /\ job_data = [EmptyJob EXCEPT !.experience_level = level,
                                         !.experience_years = years]
    /\ similarity = NoSimilarity
    /\ calls = NotCalled
    /\ returned = [ai \in AiOutcomes |-> NotCalled]
    /\ job_text = Unused
    /\ text = Unused
    /\ cleaned = Unused
    /\ recleaned = Unused

SpecExperience == ExperienceInit /\ [][ScoreNext]_vars

\* min(2 * number of experience entries, 20)
ClaimedResumeYears ==
    IF 2 * Len(resume_data.experience) < 20
    THEN 2 * Len(resume_data.experience) ELSE 20

\* C5: resume years are min(2 * entries, 20); a job whose experience_years is
\* absent, None or 0 has years-compatibility 1.0; otherwise it is 1.0 when the
\* resume years reach the job years and resume_years / job_years below them.
YearsCompatibility ==
    calls # NotCalled =>
        LET jy == job_data.experience_years IN
        calls[1].years_score =
            IF jy \in {PyAbsent, PyNone, PyInt(0)} THEN Ok(One)
            ELSE IF ClaimedResumeYears >= jy.int THEN Ok(One)
            ELSE Ok(Rat(ClaimedResumeYears, jy.int))

-----------------------------------------------------------------------------
(* Education score *)

\* degrees: upper case, one containing another, an unrelated one, the empty one
DegreeUniverse == {<<"B", "S">>, <<"b", "s", " ", "c", "s">>,
                   <<"m", "s">>, <<>>}

MaxEducation == 2

EducationRequiredValues == {PyAbsent, PyNone} \cup {PyStr(d) : d \in DegreeUniverse}

EducationInit ==
    /\ ServicesUnused
    /\ \E degrees \in ListsUpTo(DegreeUniverse, MaxEducation),
          required \in EducationRequiredValues :
          /\ resume_data = [EmptyResume EXCEPT !.education =
                 [i \in DOMAIN degrees |-> [degree |-> degrees[i]]]]
          /\ job_data = [EmptyJob EXCEPT !.education_required = required]
    /\ similarity = NoSimilarity
    /\ calls = NotCalled
    /\ returned = [ai \in AiOutcomes |-> NotCalled]
    /\ job_text = Unused
    /\ text = Unused
    /\ cleaned = Unused
    /\ recleaned = Unused

SpecEducation == EducationInit /\ [][ScoreNext]_vars

\* C6: the education score is 0.5 when the job has no education requirement
\* (None or the empty string); otherwise 1.0 iff some resume degree is a
\* case-insensitive substring of the requirement or contains it, else 0.0.
EducationScoreRule ==
    calls # NotCalled =>
        LET required == job_data.education_required
            education == resume_data.education
            score == calls[1].education_score[1]
        IN  /\ score \in {Zero, Half, One}
            /\ (required \in {PyAbsent, PyNone, PyStr(<<>>)}) <=> (score = Half)
            /\ (IsStr(required) /\ required.str # <<>>) =>
                   ((score = One) <=>
                        \E i \in DOMAIN education :
                            \/ IsSubstring(Lower(education[i].degree), Lower(required.str))
                            \/ IsSubstring(Lower(required.str), Lower(education[i].degree)))
            /\ (IsStr(required) /\ required.str # <<>> /\ education = <<>>) =>
                   score = Zero

\* C6 witness: a requirement met only by a degree of another letter case
EducationScoreWitness ==
    /\ calls # NotCalled
    /\ job_data.education_required = PyStr(<<"b", "s", " ", "c", "s">>)
    /\ resume_data.education = <<[degree |-> <<"m", "s">>], [degree |-> <<"B", "S">>]>>
    /\ calls[1].education_score = Value(One)

-----------------------------------------------------------------------------
(* The whole scorer *)

RequiredSamples == {<<>>, <<<<"a", "b">>>>, <<<<"a", "b">>, <<"c">>>>}

ExperienceSamples ==
    {<<>>,
     Repeat([title |-> <<"S", "r", " ", "d", "e", "v">>], 1),
     Repeat([title |-> <<"i", "n", "t", "e", "r", "n">>], 8)}

EducationSamples == {PyNone, PyStr(<<"b", "s", " ", "c", "s">>), PyStr(<<"m", "s">>)}

CertificationSamples == {<<>>, <<<<"a", "b">>, <<"c">>, <<"c">>>>}

ProjectSamples == {<<>>, <<[description |-> <<"a", "b">>]>>}

\* what the vectorizer's cosine similarity can come to, in [0, 1]
SimilaritySamples ==
    {[project |-> Zero, semantic |-> Zero], [project |-> One, semantic |-> One]}

ScorerInit ==
    /\ ServicesUnused
    /\ \E q \in RequiredSamples, pr \in {<<>>, <<<<"c">>>>},
          e \in ExperienceSamples, level \in {"entry", "senior"},
          years \in {PyAbsent, PyNone, PyInt(4), PyInt(17)},
          edu \in EducationSamples, certs \in CertificationSamples,
          projects \in ProjectSamples :
          /\ resume_data =
                 [skills |-> <<<<"a", "b">>>>, experience |-> e,
                  education |-> <<[degree |-> <<"B", "S">>]>>,
                  certifications |-> <<<<"a", "b">>>>, projects |-> projects,
                  cleaned_text |-> <<"a", "b">>]
          /\ job_data =
                 [skills_required |-> q, skills_preferred |-> pr,
                  experience_level |-> level, experience_years |-> years,
                  education_required |-> edu, certifications_required |-> certs,
                  keywords |-> <<<<"a", "b">>>>, cleaned_text |-> <<"c">>,
                  description |-> <<"c">>]
    /\ similarity \in SimilaritySamples
    /\ calls = NotCalled
    /\ returned = [ai \in AiOutcomes |-> NotCalled]
    /\ job_text = Unused
    /\ text = Unused
    /\ cleaned = Unused
    /\ recleaned = Unused

Spec == ScorerInit /\ [][ScoreNext]_vars

\* the results returned so far
Results ==
    {returned[ai][1].value : ai \in {a \in AiOutcomes :
        returned[a] # NotCalled /\ IsOk(returned[a][1])}}

\* C1: in every returned result, fit_verdict is 'high' iff relevance_score >= 80,
\* 'medium' iff 60 <= relevance_score < 80 and 'low' iff relevance_score < 60
\* (relevance_score in hundredths).
VerdictAgreesWithReportedScore ==
    \A result \in Results :
        /\ (result.fit_verdict = "high") <=> (result.relevance_score >= 8000)
        /\ (result.fit_verdict = "medium") <=>
               (result.relevance_score >= 6000 /\ result.relevance_score < 8000)
        /\ (result.fit_verdict = "low") <=> (result.relevance_score < 6000)

\* C2: the overall score is 0.35*skills + 0.25*experience + 0.15*education +
\* 0.10*certification + 0.10*project + 0.05*semantic; the weights sum to 1; the
\* overall score is in [0, 1] and the reported relevance_score in [0, 100].
OverallIsWeightedSum ==
    /\ ScoringWeights.skills_match + ScoringWeights.experience_match
         + ScoringWeights.education_match + ScoringWeights.certification_match
         + ScoringWeights.project_match + ScoringWeights.semantic_similarity = 100
    /\ (calls # NotCalled /\ calls[1].overall_score # NotCalled) =>
           LET c == calls[1]
               overall == c.overall_score[1]
           IN  /\ overall =
                     RAdd(RMul(Rat(35, 100), c.skills_score),
                     RAdd(RMul(Rat(25, 100), c.experience_score.value),
                     RAdd(RMul(Rat(15, 100), c.education_score[1]),
                     RAdd(RMul(Rat(10, 100), c.certification_score[1]),
                     RAdd(RMul(Rat(10, 100), c.project_score[1]),
                          RMul(Rat(5, 100), c.semantic_score[1]))))))
               /\ RLe(Zero, overall) /\ RLe(overall, One)
               /\ \A result \in Results :
                      /\ result.relevance_score = Round2Pct(overall)
                      /\ result.relevance_score \in 0..10000

\* C2 witness: a returned result whose components are not all equal
OverallIsWeightedSumWitness ==
    /\ calls # NotCalled
    /\ Results # {}
    /\ calls[1].skills_score = One
    /\ calls[1].education_score = Value(Zero)
    /\ calls[1].semantic_score = Value(Zero)
    /\ \E result \in Results : result.relevance_score > 5000

\* C7: for the same inputs the scorer returns a result whether the narrative
\* call responds or raises; the two results agree in every field but
\* ai_analysis, which is the fallback string when the call raises.
NarrativeFailureChangesOnlyAnalysis ==
    (\A ai \in AiOutcomes : returned[ai] # NotCalled) =>
        /\ \A ai \in AiOutcomes : IsOk(returned[ai][1])
        /\ LET a == returned["responds"][1].value
               b == returned["raises"][1].value
           IN  /\ [a EXCEPT !.ai_analysis = ""] = [b EXCEPT !.ai_analysis = ""]
               /\ b.ai_analysis = "AI analysis unavailable at this time."

-----------------------------------------------------------------------------
(* String operations of the parser and the analyzer *)

Letters == Range(UpperLetters) \cup Range(LowerLetters)

\* str.upper() on one character
UpperOf ==
    [c \in Range(LowerLetters) |->
        UpperLetters[CHOOSE i \in DOMAIN LowerLetters : LowerLetters[i] = c]]

UpperChar(c) == IF c \in DOMAIN UpperOf THEN UpperOf[c] ELSE c

\* str.title(): a letter after a non-letter is upper case, any other lower case
Title(s) ==
    [i \in 1..Len(s) |->
        IF i = 1 \/ s[i - 1] \notin Letters THEN UpperChar(s[i])
        ELSE LowerChar(s[i])]

\* the number of consecutive characters of `class` in s from position p on
RECURSIVE Run(_, _, _)
Run(s, p, class) ==
    IF p >= 1 /\ p <= Len(s) /\ s[p] \in class THEN 1 + Run(s, p + 1, class)
    ELSE 0

\* the literal `word` stands in s at position p
HasAt(word, s, p) ==
    /\ p >= 1
    /\ p + Len(word) - 1 <= Len(s)
    /\ SubSeq(s, p, p + Len(word) - 1) = word

Least(set) == CHOOSE k \in set : \A h \in set : k <= h
Greatest(set) == CHOOSE k \in set : \A h \in set : k >= h

\* str.split()
RECURSIVE Split(_)
Split(s) ==
    LET t == LStrip(s)
        spaces == {i \in DOMAIN t : t[i] \in Whitespace}
        n == IF spaces = {} THEN Len(t) ELSE Least(spaces) - 1
    IN  IF t = <<>> THEN <<>>
        ELSE <<SubSeq(t, 1, n)>> \o Split(SubSeq(t, n + 1, Len(t)))

\* ' '.join(words)
RECURSIVE Join(_)
Join(words) ==
    IF words = <<>> THEN <<>>
    ELSE IF Len(words) = 1 THEN words[1]
    ELSE words[1] \o <<" ">> \o Join(Tail(words))

DigitChars == <<"0", "1", "2", "3", "4", "5", "6", "7", "8", "9">>

DigitValue(c) == (CHOOSE i \in DOMAIN DigitChars : DigitChars[i] = c) - 1

\* int(s) for a string of digits
RECURSIVE ParseInt(_)
ParseInt(s) ==
    IF s = <<>> THEN 0
    ELSE ParseInt(SubSeq(s, 1, Len(s) - 1)) * 10 + DigitValue(s[Len(s)])

\* list(set): the lists that hold each element of the set once, in any order
Orderings(set) ==
    {order \in [1..Cardinality(set) -> set] :
        \A i, j \in 1..Cardinality(set) : order[i] = order[j] => i = j}

\* A pattern that is an alternation of literals is a list of alternatives; an
\* alternative is a list of characters, each one required or optional ('\.?').
Lit(chars) == [i \in 1..Len(chars) |-> [c |-> chars[i], optional |-> FALSE]]

\* pieces, each followed by '\.?'
RECURSIVE Dotted(_)
Dotted(pieces) ==
    IF pieces = <<>> THEN <<>>
    ELSE Lit(Head(pieces)) \o <<[c |-> ".", optional |-> TRUE]>> \o Dotted(Tail(pieces))

\* the position after the match of alternative[k..] at position i of s, with
\* re.IGNORECASE; 0 when it does not match
RECURSIVE MatchFrom(_, _, _, _)
MatchFrom(alternative, k, s, i) ==
    IF k > Len(alternative) THEN i
    ELSE IF i <= Len(s) /\ LowerChar(s[i]) = alternative[k].c
         THEN MatchFrom(alternative, k + 1, s, i + 1)
    ELSE IF alternative[k].optional THEN MatchFrom(alternative, k + 1, s, i)
    ELSE 0

\* re.finditer(pattern, s, re.IGNORECASE) from position i on: the matches left
\* to right, not overlapping, each with its text and its start()
RECURSIVE FindIter(_, _, _)
FindIter(alternatives, s, i) ==
    IF i > Len(s) THEN <<>>
    ELSE LET ends == [k \in DOMAIN alternatives |->
                         MatchFrom(alternatives[k], 1, s, i)]
             hits == {k \in DOMAIN alternatives : ends[k] # 0}
         IN  IF hits = {} THEN FindIter(alternatives, s, i + 1)
             ELSE LET end == ends[Least(hits)] IN
                  <<[group |-> SubSeq(s, i, end - 1), start |-> i - 1,
                     end |-> end - 1]>>
                  \o FindIter(alternatives, s, end)

\* text[max(0, start - before):min(len(text), end + after)].strip()
Context(s, match, before, after) ==
    Strip(SubSeq(s,
                 IF match.start - before > 0 THEN match.start - before + 1 ELSE 1,
                 IF match.end + after < Len(s) THEN match.end + after ELSE Len(s)))

\* those of `words` that occur in s, in the order of `words`
Occurring(words, s) == SelectSeq(words, LAMBDA w : IsSubstring(w, s))

-----------------------------------------------------------------------------
(* The texts *)

\* The resume texts and the job texts are words of these vocabularies joined by
\* single spaces.  What follows leaves out the parts of the extractors that no
\* such text can trigger, and says so where it does.
ResumeVocabulary == {<<"i", "n", "t", "e", "r", "n">>, <<"P", "y", "t", "h", "o", "n">>,
                     <<"B", "S">>, <<"b", "u", "i", "l", "t">>}

JobVocabulary == {<<"S", "e", "n", "i", "o", "r">>, <<"p", "y", "t", "h", "o", "n">>,
                  <<"2", "5">>, <<"y", "e", "a", "r", "s">>, <<"r", "e", "q", "u", "i", "r", "e", "d">>,
                  <<"B", "S">>}

RequirementsSamples == {<<>>, <<"3", " ", "y", "e", "a", "r", "s">>}

MaxResumeWords == 1

MaxJobWords == 2

\* entries of _load_skills_database (both classes); of all its entries only
\* 'python' and 'r' occur in a text over the vocabularies
SkillsDatabase == {<<"p", "y", "t", "h", "o", "n">>, <<"j", "a", "v", "a">>, <<"g", "o">>,
                   <<"r">>, <<"s", "q", "l">>}

\* a sample of stopwords.words('english'); no word of the vocabularies is one
StopWords == {<<"t", "h", "e">>, <<"a", "n", "d">>, <<"h", "a", "v", "e">>, <<"w", "i", "t", "h">>}

\* degree_patterns[1] / education_patterns[1]:
\* b\.?s\.?|m\.?s\.?|ph\.?d\.?|m\.?b\.?a\.?|b\.?e\.?|m\.?e\.?
\* (patterns [0] and [2] need a word such as 'bachelor' or 'computer')
DegreeAbbreviations ==
    <<Dotted(<<<<"b">>, <<"s">>>>), Dotted(<<<<"m">>, <<"s">>>>),
      Dotted(<<<<"p", "h">>, <<"d">>>>),
      Dotted(<<<<"m">>, <<"b">>, <<"a">>>>),
      Dotted(<<<<"b">>, <<"e">>>>), Dotted(<<<<"m">>, <<"e">>>>)>>

\* cert_patterns[2]: cissp|cisa|cism|itil|prince2|six sigma
\* (patterns [0] and [1] need the word 'certified' or 'certification')
CertificationNames ==
    <<Lit(<<"c", "i", "s", "s", "p">>), Lit(<<"c", "i", "s", "a">>),
      Lit(<<"c", "i", "s", "m">>), Lit(<<"i", "t", "i", "l">>),
      Lit(<<"p", "r", "i", "n", "c", "e", "2">>),
      Lit(<<"s", "i", "x", " ", "s", "i", "g", "m", "a">>)>>

\* _extract_certifications / _extract_certification_requirements, as a set
ExtractCertifications(txt) ==
    LET matches == FindIter(CertificationNames, txt, 1)
    IN  {Strip(matches[i].group) : i \in DOMAIN matches}

-----------------------------------------------------------------------------
(* ResumeParser *)

\* soft_skills_patterns ('problem.solving' needs the word 'problem', which no
\* text of the model has)
SoftSkillsPatterns ==
    <<<<"l", "e", "a", "d", "e", "r", "s", "h", "i", "p">>,
      <<"c", "o", "m", "m", "u", "n", "i", "c", "a", "t", "i", "o", "n">>,
      <<"t", "e", "a", "m", "w", "o", "r", "k">>,
      <<"a", "n", "a", "l", "y", "t", "i", "c", "a", "l">>,
      <<"c", "r", "e", "a", "t", "i", "v", "e">>,
      <<"a", "d", "a", "p", "t", "a", "b", "l", "e">>,
      <<"o", "r", "g", "a", "n", "i", "z", "e", "d">>,
      <<"m", "a", "n", "a", "g", "e", "m", "e", "n", "t">>,
      <<"c", "o", "l", "l", "a", "b", "o", "r", "a", "t", "i", "o", "n">>,
      <<"p", "r", "e", "s", "e", "n", "t", "a", "t", "i", "o", "n">>,
      <<"n", "e", "g", "o", "t", "i", "a", "t", "i", "o", "n">>>>

\* the skills in the letters of the text: every word of the text that is a
\* skill of the database in some letter case
ExtractSkillsAsWritten(txt) ==
    {w \in Range(Split(txt)) : Lower(w) \in SkillsDatabase}

\* _extract_skills, as a set: skill.title() for the skills of the database
\* whose lower case is in text.lower(), match.title() for the matches of the
\* soft-skill patterns in text.lower() (a literal matches itself)
ExtractSkills(txt) ==
    {Title(skill) : skill \in {k \in SkillsDatabase : IsSubstring(k, Lower(txt))}}
        \cup {Title(SoftSkillsPatterns[i]) :
                 i \in {h \in DOMAIN SoftSkillsPatterns :
                           IsSubstring(SoftSkillsPatterns[h], Lower(txt))}}

\* job_patterns[2] and job_patterns[3] (job_patterns[0] and [1] need a word
\* such as 'engineer')
JobPatterns ==
    <<<<Lit(<<"m", "a", "n", "a", "g", "e", "r">>),
        Lit(<<"d", "i", "r", "e", "c", "t", "o", "r">>),
        Lit(<<"h", "e", "a", "d">>), Lit(<<"v", "p">>),
        Lit(<<"c", "t", "o">>), Lit(<<"c", "f", "o">>),
        Lit(<<"c", "e", "o">>)>>,
      <<Lit(<<"i", "n", "t", "e", "r", "n">>),
        Lit(<<"t", "r", "a", "i", "n", "e", "e">>),
        Lit(<<"j", "u", "n", "i", "o", "r">>),
        Lit(<<"a", "s", "s", "o", "c", "i", "a", "t", "e">>)>>>>

\* the experience entries that one pattern adds
ExperienceEntries(txt, pattern) ==
    LET matches == FindIter(pattern, txt, 1)
    IN  [i \in DOMAIN matches |->
            [title |-> Strip(matches[i].group),
             context |-> Context(txt, matches[i], 100, 100),
             position |-> matches[i].start]]

\* _extract_experience
ExtractExperience(txt) ==
    Take(ExperienceEntries(txt, JobPatterns[1])
             \o ExperienceEntries(txt, JobPatterns[2]), 10)

\* _extract_education
ExtractEducation(txt) ==
    LET matches == FindIter(DegreeAbbreviations, txt, 1)
    IN  Take([i \in DOMAIN matches |->
                 [degree |-> Strip(matches[i].group),
                  context |-> Context(txt, matches[i], 50, 50)]], 5)

ProjectKeywords ==
    <<<<"p", "r", "o", "j", "e", "c", "t">>, <<"d", "e", "v", "e", "l", "o", "p", "e", "d">>,
      <<"b", "u", "i", "l", "t">>, <<"c", "r", "e", "a", "t", "e", "d">>,
      <<"i", "m", "p", "l", "e", "m", "e", "n", "t", "e", "d">>, <<"d", "e", "s", "i", "g", "n", "e", "d">>>>

\* sent_tokenize(text): a text without sentence punctuation is one sentence
SentTokenize(txt) == IF txt = <<>> THEN <<>> ELSE <<txt>>

\* _extract_projects
ExtractProjects(txt) ==
    LET sentences ==
            SelectSeq(SentTokenize(txt),
                      LAMBDA sentence :
                          Occurring(ProjectKeywords, Lower(sentence)) # <<>>)
    IN  Take([i \in DOMAIN sentences |->
                 [description |-> Strip(sentences[i]),
                  keywords |-> Occurring(ProjectKeywords, Lower(sentences[i]))]],
             10)

\* parse_resume: what it can return for the text that _extract_text found, the
\* lists built from a set in any order; ValueError when there is no text
ParseResume(raw_text) ==
    IF raw_text = <<>> THEN {Raise("ValueError")}
    ELSE LET cleaned_text == CleanText(raw_text) IN
         {[cleaned_text |-> cleaned_text,
           skills |-> skills,
           experience |-> ExtractExperience(cleaned_text),
           education |-> ExtractEducation(cleaned_text),
           certifications |-> certifications,
           projects |-> ExtractProjects(cleaned_text)] :
              skills \in Orderings(ExtractSkills(cleaned_text)),
              certifications \in Orderings(ExtractCertifications(cleaned_text))}

-----------------------------------------------------------------------------
(* JobAnalyzer *)

\* re.findall(keyword + r'[:\s]+([^.]{2,50})', s) from position i on
RECURSIVE Captures(_, _, _)
Captures(keyword, s, i) ==
    IF i > Len(s) THEN <<>>
    ELSE LET a == i + Len(keyword)
             separators == Run(s, a, Whitespace \cup {":"})
             \* the separators to consume so that two characters are left
             fits == {j \in 1..separators :
                         Run(s, a + j, Range(s) \ {"."}) >= 2}
         IN  IF HasAt(keyword, s, i) /\ fits # {}
             THEN LET from == a + Greatest(fits)
                      available == Run(s, from, Range(s) \ {"."})
                      n == IF available < 50 THEN available ELSE 50
                  IN  <<SubSeq(s, from, from + n - 1)>>
                      \o Captures(keyword, s, from + n)
             ELSE Captures(keyword, s, i + 1)

\* the words that the patterns of `keywords` capture: longer than two
\* characters, no stop words, in title case (word_tokenize splits a capture
\* without punctuation at its whitespace)
RECURSIVE Flatten(_)
Flatten(lists) ==
    IF lists = <<>> THEN <<>> ELSE Head(lists) \o Flatten(Tail(lists))

CapturedSkills(keywords, text_lower) ==
    LET captures == Flatten([k \in DOMAIN keywords |->
                                Captures(keywords[k], text_lower, 1)])
        words == Flatten([i \in DOMAIN captures |-> Split(captures[i])])
    IN  {Title(words[i]) : i \in {h \in DOMAIN words :
            Len(words[h]) > 2 /\ words[h] \notin StopWords}}

RequiredKeywords ==
    <<<<"r", "e", "q", "u", "i", "r", "e", "d">>, <<"m", "u", "s", "t", " ", "h", "a", "v", "e">>,
      <<"e", "s", "s", "e", "n", "t", "i", "a", "l">>, <<"m", "a", "n", "d", "a", "t", "o", "r", "y">>>>

PreferredKeywords ==
    <<<<"p", "r", "e", "f", "e", "r", "r", "e", "d">>, <<"n", "i", "c", "e", " ", "t", "o", " ", "h", "a", "v", "e">>,
      <<"b", "o", "n", "u", "s">>, <<"p", "l", "u", "s">>>>

\* _extract_required_skills, as a set
ExtractRequiredSkills(txt) ==
    {Title(skill) : skill \in {k \in SkillsDatabase : IsSubstring(k, Lower(txt))}}
        \cup CapturedSkills(RequiredKeywords, Lower(txt))

\* _extract_preferred_skills, as a set
ExtractPreferredSkills(txt) == CapturedSkills(PreferredKeywords, Lower(txt))

\* self.experience_patterns, in the order the dictionary is iterated
ExperiencePatternOrder == <<"entry", "mid", "senior", "lead">>

ExperiencePatterns ==
    [entry  |-> {<<"e", "n", "t", "r", "y">>, <<"j", "u", "n", "i", "o", "r">>,
                 <<"t", "r", "a", "i", "n", "e", "e">>, <<"i", "n", "t", "e", "r", "n">>,
                 <<"g", "r", "a", "d", "u", "a", "t", "e">>, <<"0", "-", "2">>,
                 <<"0", "-", "1">>, <<"1", "-", "2">>},
     mid    |-> {<<"m", "i", "d">>, <<"i", "n", "t", "e", "r", "m", "e", "d", "i", "a", "t", "e">>,
                 <<"2", "-", "4">>, <<"3", "-", "5">>, <<"2", "-", "5">>, <<"3", "-", "4">>},
     senior |-> {<<"s", "e", "n", "i", "o", "r">>, <<"l", "e", "a", "d">>, <<"p", "r", "i", "n", "c", "i", "p", "a", "l">>,
                 <<"5", "+">>, <<"6", "+">>, <<"7", "+">>, <<"5", "-", "8">>, <<"6", "-", "1", "0">>},
     lead   |-> {<<"l", "e", "a", "d">>, <<"p", "r", "i", "n", "c", "i", "p", "a", "l">>,
                 <<"s", "t", "a", "f", "f">>, <<"a", "r", "c", "h", "i", "t", "e", "c", "t">>,
                 <<"m", "a", "n", "a", "g", "e", "r">>, <<"d", "i", "r", "e", "c", "t", "o", "r">>,
                 <<"8", "+">>, <<"1", "0", "+">>}]

\* _extract_experience_level
ExtractExperienceLevel(txt) ==
    LET text_lower == Lower(txt)
        found == {k \in DOMAIN ExperiencePatternOrder :
                     \E pattern \in ExperiencePatterns[ExperiencePatternOrder[k]] :
                         IsSubstring(pattern, text_lower)}
    IN  IF found = {} THEN "mid" ELSE ExperiencePatternOrder[Least(found)]

\* the position after the match of (\d+)[\s-]*(\d+)?\s*<unit> at position i of
\* s, where unit is 'years?' or 'yr'; 0 when it does not match
YearsRangeEnd(s, i, unit) ==
    LET first == Run(s, i, Digits)
        p1 == i + first
        p2 == p1 + Run(s, p1, Whitespace \cup {"-"})
        p3 == p2 + Run(s, p2, Digits)
        p4 == p3 + Run(s, p3, Whitespace)
    IN  IF first = 0 \/ ~HasAt(unit, s, p4) THEN 0
        ELSE IF unit = <<"y", "e", "a", "r">> /\ HasAt(<<"s">>, s, p4 + 4)
             THEN p4 + 5
        ELSE p4 + Len(unit)

\* the position after the match of (\d+)\+?\s*years? at position i of s
YearsPlusEnd(s, i) ==
    LET first == Run(s, i, Digits)
        p1 == i + first
        p2 == IF HasAt(<<"+">>, s, p1) THEN p1 + 1 ELSE p1
        p3 == p2 + Run(s, p2, Whitespace)
    IN  IF first = 0 \/ ~HasAt(<<"y", "e", "a", "r">>, s, p3) THEN 0
        ELSE IF HasAt(<<"s">>, s, p3 + 4) THEN p3 + 5
        ELSE p3 + 4

\* re.findall of year_patterns[0] (unit 'year') and [1] (unit 'yr') from
\* position i on: the first group of each match
RECURSIVE FindYearsRange(_, _, _)
FindYearsRange(s, i, unit) ==
    IF i > Len(s) THEN <<>>
    ELSE LET end == YearsRangeEnd(s, i, unit) IN
         IF end = 0 THEN FindYearsRange(s, i + 1, unit)
         ELSE <<SubSeq(s, i, i + Run(s, i, Digits) - 1)>>
              \o FindYearsRange(s, end, unit)

\* re.findall of year_patterns[2]: its only group, so each match is a string
RECURSIVE FindYearsPlus(_, _)
FindYearsPlus(s, i) ==
    IF i > Len(s) THEN <<>>
    ELSE LET end == YearsPlusEnd(s, i) IN
         IF end = 0 THEN FindYearsPlus(s, i + 1)
         ELSE <<SubSeq(s, i, i + Run(s, i, Digits) - 1)>> \o FindYearsPlus(s, end)

\* _extract_experience_years: the first int(match[0]) in 0..20, else None;
\* match[0] is the first group of a match of patterns [0] and [1] and the
\* first character of a match of pattern [2]
ExtractExperienceYears(txt) ==
    LET s == Lower(txt)
        ranges == FindYearsRange(s, 1, <<"y", "e", "a", "r">>)
                      \o FindYearsRange(s, 1, <<"y", "r">>)
        plus == FindYearsPlus(s, 1)
        years == [i \in DOMAIN ranges |-> ParseInt(ranges[i])]
                     \o [i \in DOMAIN plus |-> DigitValue(plus[i][1])]
        reasonable == {i \in DOMAIN years : years[i] >= 0 /\ years[i] <= 20}
    IN  IF reasonable = {} THEN PyNone ELSE PyInt(years[Least(reasonable)])

\* _extract_education_requirements
ExtractEducationRequirements(txt) ==
    LET matches == FindIter(DegreeAbbreviations, txt, 1)
    IN  IF matches = <<>> THEN PyNone ELSE PyStr(Strip(matches[1].group))

\* _extract_keywords: the top terms the vectorizer finds; [] when it raises
KeywordOutcomes == {<<>>, <<<<"p", "y", "t", "h", "o", "n">>>>}

\* analyze_job_description: what it can return, the lists built from a set in
\* any order; it sets no 'description'
AnalyzeJobDescription(job_description, requirements) ==
    LET full_text == job_description \o <<"\n", "\n">> \o requirements
        cleaned_text == CleanText(full_text)
    IN  {[cleaned_text |-> cleaned_text,
          skills_required |-> skills_required,
          skills_preferred |-> skills_preferred,
          experience_level |-> ExtractExperienceLevel(cleaned_text),
          experience_years |-> ExtractExperienceYears(cleaned_text),
          education_required |-> ExtractEducationRequirements(cleaned_text),
          certifications_required |-> certifications_required,
          keywords |-> keywords,
          description |-> <<>>] :
             skills_required \in Orderings(ExtractRequiredSkills(cleaned_text)),
             skills_preferred \in Orderings(ExtractPreferredSkills(cleaned_text)),
             certifications_required \in
                 Orderings(ExtractCertifications(cleaned_text)),
             keywords \in KeywordOutcomes}

-----------------------------------------------------------------------------
(* Parser and analyzer feeding the scorer *)

\* every text of at most n words of the vocabulary
TextsUpTo(vocabulary, n) == {Join(words) : words \in ListsUpTo(vocabulary, n)}

RoundTripInit ==
    /\ ServicesUnused
    /\ text \in TextsUpTo(ResumeVocabulary, MaxResumeWords)
    /\ cleaned = NotCalled
    /\ recleaned = NotCalled
    /\ job_text \in {[job_description |-> d, requirements |-> r] :
                        d \in TextsUpTo(JobVocabulary, MaxJobWords),
                        r \in RequirementsSamples}
    /\ resume_data = NotCalled
    /\ job_data = NotCalled
    /\ similarity \in SimilaritySamples
    /\ calls = NotCalled
    /\ returned = [ai \in AiOutcomes |-> NotCalled]

\* resume_data = parser.parse_resume(file_path, file_type)
Parse ==
    /\ resume_data = NotCalled
    /\ resume_data' \in ParseResume(text)
    /\ cleaned' = IF text = <<>> THEN cleaned ELSE Value(CleanText(text))
    /\ UNCHANGED <<text, recleaned, job_text, job_data, similarity, calls, returned>>
    /\ UNCHANGED serviceVars

\* job_data = analyzer.analyze_job_description(job_description, requirements)
Analyze ==
    /\ job_data = NotCalled
    /\ job_data' \in AnalyzeJobDescription(job_text.job_description,
                                          job_text.requirements)
    /\ UNCHANGED <<job_text, resume_data, similarity, calls, returned>>
    /\ UNCHANGED normVars
    /\ UNCHANGED serviceVars

RoundTripNext == Parse \/ Analyze \/ ScoreNext

SpecRoundTrip == RoundTripInit /\ [][RoundTripNext]_vars

\* C8: a resume_data that parse_resume returned and a job_data that
\* analyze_job_description returned, passed on unmodified, never make
\* calculate_relevance_score raise.
RoundTripNeverRaises ==
    \A ai \in AiOutcomes :
        returned[ai] # NotCalled => IsOk(returned[ai][1])

-----------------------------------------------------------------------------
(* Text extraction: ResumeParser._extract_text and parse_resume *)

Pdf == <<"p", "d", "f">>
Doc == <<"d", "o", "c">>
Docx == <<"d", "o", "c", "x">>
Txt == <<"t", "x", "t">>

\* the reader that another rule of dispatch would choose: the declared type
\* compared as it is written
ReaderForExactType(file_type) ==
    IF file_type = Pdf THEN "_extract_from_pdf"
    ELSE IF file_type \in {Doc, Docx} THEN "_extract_from_docx"
    ELSE IF file_type = Txt THEN "_extract_from_txt"
    ELSE "none"

\* _extract_text: the reader that file_type.lower() selects, "none" when the
\* else branch raises ValueError("Unsupported file type")
ReaderFor(file_type) ==
    IF Lower(file_type) = Pdf THEN "_extract_from_pdf"
    ELSE IF Lower(file_type) \in {Doc, Docx} THEN "_extract_from_docx"
    ELSE IF Lower(file_type) = Txt THEN "_extract_from_txt"
    ELSE "none"

\* _extract_text(file_path, file_type), where `read` is what the reader does
\* with the file when it is invoked: Ok(text) or Raise(error). The result
\* names the reader that ran.
ExtractText(file_type, read) ==
    IF ReaderFor(file_type) = "none"
    THEN [reader |-> "none", outcome |-> Raise("ValueError: Unsupported file type")]
    ELSE [reader |-> ReaderFor(file_type), outcome |-> read]

\* parse_resume(file_path, file_type): every result it can give
ParseResumeFile(file_type, read) ==
    LET extracted == ExtractText(file_type, read) IN
    IF IsRaise(extracted.outcome)
    THEN {[reader |-> extracted.reader, outcome |-> extracted.outcome]}
    ELSE {[reader |-> extracted.reader,
           outcome |-> IF IsRaise(p) THEN p ELSE Ok(p)] :
              p \in ParseResume(extracted.outcome.value)}

-----------------------------------------------------------------------------
(* Storage: models.py *)

FitVerdicts == {"high", "medium", "low"}

\* Resume(filename=..., file_type=..., parsing_status='processing')
NewResume(file_type) ==
    [file_type |-> file_type, parsing_status |-> "processing",
     parsing_errors |-> PyNone, parsed |-> PyNone]

\* Evaluation(resume_id=..., job_description_id=..., evaluated_by=...,
\* status='processing'): the columns that are not given are NULL
NewEvaluation(resume_id, job_id) ==
    [resume_id |-> resume_id, job_description_id |-> job_id,
     relevance_score |-> PyNone, fit_verdict |-> PyNone,
     status |-> "processing"]

\* a table evaluations that declares no constraint
EvaluationUnconstrained(row) == TRUE

\* Evaluation: relevance_score and fit_verdict are nullable=False, and
\* CheckConstraint('relevance_score >= 0 AND relevance_score <= 100'); a row
\* that breaks them makes the flush of db.session.commit() raise IntegrityError.
\* The score is held in hundredths.
EvaluationConstraints(row) ==
    /\ row.relevance_score # PyNone
    /\ row.fit_verdict # PyNone
    /\ row.relevance_score.int \in 0..10000

\* Evaluation.query.filter_by(resume_id=..., job_description_id=...).first():
\* the id of the row, or None
ExistingEvaluation(resume_id, job_id) ==
    LET ids == {i \in DOMAIN evaluations :
                   /\ evaluations[i].resume_id = resume_id
                   /\ evaluations[i].job_description_id = job_id}
    IN  IF ids = {} THEN PyNone ELSE PyInt(Least(ids))

\* a test that lets every resume through
IsParsedOrNot(resume) == TRUE

\* resume.parsing_status != 'completed' is the test that rejects
IsParsed(resume) == resume.parsing_status = "completed"

-----------------------------------------------------------------------------
(* Routes: routes/api.py and routes/dashboard.py. Each request runs in its  *)
(* own session; a step of a request is the code up to its next commit.      *)

MaxResumes == 1
MaxJobs == 1
MaxRequests == 3
MaxBatch == 2

EvaluateRoutes == {"api.create_evaluation", "dashboard.evaluate_resume"}
UploadRoutes == {"api.upload_resume", "dashboard.upload_resume"}
BatchRoute == "api.batch_evaluate"

\* the ids a request can name; 0 stands for a field that is missing
ResumeIdInputs == 0..(MaxResumes + 1)
JobIdInputs == 0..(MaxJobs + 1)

\* the uploaded files that pass validate_file: the subtype of the MIME type
\* that python-magic reports, and what the reader makes of the file
UploadedFiles ==
    {[subtype |-> Pdf, read |-> Ok(<<"P", "y", "t", "h", "o", "n">>)],
     [subtype |-> Pdf, read |-> Ok(<<>>)],
     [subtype |-> Pdf, read |-> Raise("PdfReadError")],
     [subtype |-> <<"p", "l", "a", "i", "n">>,
      read |-> Ok(<<"P", "y", "t", "h", "o", "n">>)]}

\* what calculate_relevance_score and generate_feedback can do in a request
ScoringOutcomes ==
    {Raise("TypeError"),
     Ok([relevance_score |-> 3500, fit_verdict |-> "low"]),
     Ok([relevance_score |-> 8500, fit_verdict |-> "high"])}
FeedbackOutcomes == {Raise("TypeError"), Ok([priority |-> "medium"])}

\* return jsonify(...), status
Respond(req, status, error) ==
    [req EXCEPT !.pc = "done", !.response = status, !.error = error]

\* except Exception as e: ... return jsonify({'error': ...}), 500
Caught(req, exception, error) ==
    [Respond(req, 500, error) EXCEPT !.raised = exception]

\* evaluation.relevance_score = scoring_result['relevance_score'] ...
\* evaluation.status = 'completed'
Scored(row, scoring_result) ==
    [row EXCEPT !.relevance_score = PyInt(scoring_result.relevance_score),
                !.fit_verdict = PyStr(scoring_result.fit_verdict),
                !.status = "completed"]

\* Feedback(evaluation_id=evaluation.id, ...)
NewFeedback(evaluation_id, feedback_result) ==
    [evaluation_id |-> evaluation_id, priority |-> feedback_result.priority]

\* POST /jobs: a valid job description is analysed and stored
CreateJob ==
    /\ Len(jobs) < MaxJobs
    /\ jobs' = Append(jobs, [status |-> "active"])
    /\ UNCHANGED <<resumes, evaluations, feedback, requests>>
    /\ UNCHANGED <<normVars, scoreVars, threadVars, extractVars, feedbackVars>>

\* create_evaluation and evaluate_resume up to the test for an existing
\* evaluation: the request as it stands after these lines
EvaluateLookup(route, resume_id, job_id) ==
    LET req == [route |-> route, resume_id |-> resume_id, job_id |-> job_id,
                evaluation |-> PyNone, pc |-> "insert", response |-> 0,
                error |-> "", raised |-> ""]
    IN  IF resume_id = 0 \/ job_id = 0
        THEN Respond(req, 400, "resume_id and job_id are required")
        ELSE IF resume_id \notin DOMAIN resumes \/ job_id \notin DOMAIN jobs
        THEN \* get_or_404 raises NotFound, which the outer handler catches
             Caught(req, "NotFound", "Failed to create evaluation")
        ELSE IF ~IsParsed(resumes[resume_id])
        THEN Respond(req, 400, "Resume must be parsed before evaluation")
        ELSE IF ExistingEvaluation(resume_id, job_id) # PyNone
        THEN Respond(req, 400, "Evaluation already exists for this resume and job")
        ELSE req

ReceiveEvaluate(route, resume_id, job_id) ==
    /\ Len(requests) < MaxRequests
    /\ requests' = Append(requests, EvaluateLookup(route, resume_id, job_id))
    /\ UNCHANGED <<resumes, jobs, evaluations, feedback>>
    /\ UNCHANGED <<normVars, scoreVars, threadVars, extractVars, feedbackVars>>

\* create_evaluation and evaluate_resume from `evaluation = Evaluation(...)`:
\* the commit of the new row, and then the scoring, the feedback and the
\* second commit, or the handler that marks the evaluation failed. The local
\* `evaluation` is None before the object is made, then its id, 0 for an
\* object that no commit stored.
ContinueEvaluate(r) ==
    LET req == requests[r]
        row == NewEvaluation(req.resume_id, req.job_id)
        id == Len(evaluations) + 1
    IN
    /\ req.route \in EvaluateRoutes
    /\ req.pc # "done"
    /\ IF req.pc = "insert"
       THEN IF ~EvaluationConstraints(row)
            THEN \* db.session.commit() raises; the outer handler rolls back
                 /\ requests' = [requests EXCEPT ![r] =
                        Caught([req EXCEPT !.evaluation = PyInt(0)],
                               "IntegrityError", "Failed to create evaluation")]
                 /\ UNCHANGED <<evaluations, feedback>>
            ELSE /\ evaluations' = Append(evaluations, row)
                 /\ requests' = [requests EXCEPT ![r] =
                        [req EXCEPT !.evaluation = PyInt(id), !.pc = "score"]]
                 /\ UNCHANGED feedback
       ELSE \E scoring \in ScoringOutcomes, fb \in FeedbackOutcomes :
            LET e == req.evaluation.int IN
            IF IsRaise(scoring)
            THEN /\ evaluations' = [evaluations EXCEPT ![e].status = "failed"]
                 /\ requests' = [requests EXCEPT ![r] =
                        Caught(req, scoring.exception, "Evaluation failed")]
                 /\ UNCHANGED feedback
            ELSE IF IsRaise(fb)
            THEN /\ evaluations' = [evaluations EXCEPT ![e] =
                        [Scored(@, scoring.value) EXCEPT !.status = "failed"]]
                 /\ requests' = [requests EXCEPT ![r] =
                        Caught(req, fb.exception, "Evaluation failed")]
                 /\ UNCHANGED feedback
            ELSE /\ evaluations' = [evaluations EXCEPT ![e] =
                        Scored(@, scoring.value)]
                 /\ feedback' = Append(feedback, NewFeedback(e, fb.value))
                 /\ requests' = [requests EXCEPT ![r] =
                        Respond(req, IF req.route = "api.create_evaluation"
                                     THEN 201 ELSE 200, "")]
    /\ UNCHANGED <<resumes, jobs>>
    /\ UNCHANGED <<normVars, scoreVars, threadVars, extractVars, feedbackVars>>

\* batch_evaluate up to the loop
ReceiveBatch(job_id, resume_ids) ==
    LET req == [route |-> BatchRoute, job_id |-> job_id,
                resume_ids |-> resume_ids, position |-> 1,
                results |-> <<>>, errors |-> <<>>, evaluation |-> PyNone,
                unflushed |-> PyNone, pc |-> "resume", response |-> 0,
                error |-> "", raised |-> ""]
    IN
    /\ Len(requests) < MaxRequests
    /\ requests' = Append(requests,
           IF job_id = 0 \/ resume_ids = <<>>
           THEN Respond(req, 400, "job_id and resume_ids are required")
           ELSE IF job_id \notin DOMAIN jobs
           THEN Caught(req, "NotFound", "Batch evaluation failed")
           ELSE req)
    /\ UNCHANGED <<resumes, jobs, evaluations, feedback>>
    /\ UNCHANGED <<normVars, scoreVars, threadVars, extractVars, feedbackVars>>

\* a loop that goes on to the next resume and records nothing
SkipResume(req, resume_id, error) ==
    [req EXCEPT !.position = @ + 1, !.pc = "resume"]

\* errors.append(...); continue
RecordError(req, resume_id, error) ==
    [req EXCEPT !.errors = Append(@, [resume_id |-> resume_id, error |-> error]),
                !.position = @ + 1, !.pc = "resume"]

\* results.append({...}); the next resume
RecordResult(req, resume_id, evaluation_id, row, status) ==
    [req EXCEPT !.results = Append(@, [resume_id |-> resume_id,
                                       evaluation_id |-> evaluation_id,
                                       relevance_score |-> row.relevance_score,
                                       fit_verdict |-> row.fit_verdict,
                                       status |-> status]),
                !.position = @ + 1, !.pc = "resume"]

\* the rows after a commit of the session of `req`: the changes that an
\* earlier pass of the loop left unflushed are written with it
Flushed(req, rows) ==
    IF req.unflushed = PyNone THEN rows
    ELSE [rows EXCEPT ![req.unflushed.id] = req.unflushed.row]

\* batch_evaluate: one pass of the loop up to its commit, or the rest of a
\* pass after the commit of the new row, or the response after the loop
ContinueBatch(r) ==
    LET req == requests[r]
        rid == req.resume_ids[req.position]
        row == NewEvaluation(rid, req.job_id)
        id == Len(evaluations) + 1
        existing == ExistingEvaluation(rid, req.job_id)
    IN
    /\ req.route = BatchRoute
    /\ req.pc # "done"
    /\ IF req.pc = "resume"
       THEN /\ requests' = [requests EXCEPT ![r] =
                   IF req.position > Len(req.resume_ids)
                   THEN Respond(req, 200, "")
                   ELSE IF rid \notin DOMAIN resumes
                   THEN RecordError(req, rid, "not found")
                   ELSE IF ~IsParsed(resumes[rid])
                   THEN RecordError(req, rid, "not parsed")
                   ELSE IF existing # PyNone
                   THEN RecordResult(req, rid, existing.int,
                                     evaluations[existing.int], "existing")
                   ELSE [req EXCEPT !.pc = "insert"]]
            /\ UNCHANGED <<evaluations, feedback>>
       ELSE IF req.pc = "insert"
       THEN IF ~EvaluationConstraints(row)
            THEN \* db.session.commit() raises inside the try of the loop; the
                 \* failed commit rolls the session back
                 /\ requests' = [requests EXCEPT ![r] =
                        [RecordError(req, rid, "IntegrityError")
                            EXCEPT !.unflushed = PyNone,
                                   !.evaluation = PyInt(0)]]
                 /\ UNCHANGED <<evaluations, feedback>>
            ELSE /\ evaluations' = Append(Flushed(req, evaluations), row)
                 /\ requests' = [requests EXCEPT ![r] =
                        [req EXCEPT !.evaluation = PyInt(id),
                                    !.unflushed = PyNone, !.pc = "score"]]
                 /\ UNCHANGED feedback
       ELSE \E scoring \in ScoringOutcomes, fb \in FeedbackOutcomes :
            LET e == req.evaluation.int IN
            IF IsRaise(scoring)
            THEN /\ requests' = [requests EXCEPT ![r] =
                        RecordError(req, rid, scoring.exception)]
                 /\ UNCHANGED <<evaluations, feedback>>
            ELSE IF IsRaise(fb)
            THEN \* the scores are set on the object and no commit follows
                 /\ requests' = [requests EXCEPT ![r] =
                        [RecordError(req, rid, fb.exception)
                            EXCEPT !.unflushed =
                                [id |-> e,
                                 row |-> Scored(evaluations[e], scoring.value)]]]
                 /\ UNCHANGED <<evaluations, feedback>>
            ELSE /\ evaluations' = [evaluations EXCEPT ![e] =
                        Scored(@, scoring.value)]
                 /\ feedback' = Append(feedback, NewFeedback(e, fb.value))
                 /\ requests' = [requests EXCEPT ![r] =
                        RecordResult(req, rid, e,
                                     Scored(evaluations[e], scoring.value),
                                     "completed")]
    /\ UNCHANGED <<resumes, jobs>>
    /\ UNCHANGED <<normVars, scoreVars, threadVars, extractVars, feedbackVars>>

\* upload_resume up to the first commit. routes/api.py does not import os, so
\* os.path.basename(file_path) in its Resume(...) raises NameError, which the
\* outer handler catches; routes/dashboard.py stores the row.
ReceiveUpload(route, f) ==
    LET req == [route |-> route, file |-> f, resume_id |-> 0, pc |-> "parse",
                response |-> 0, error |-> "", raised |-> ""]
    IN
    /\ Len(requests) < MaxRequests
    /\ Len(resumes) < MaxResumes
    /\ IF route = "api.upload_resume"
       THEN /\ requests' = Append(requests,
                   Caught(req, "NameError", "Failed to upload resume"))
            /\ UNCHANGED resumes
       ELSE /\ resumes' = Append(resumes, NewResume(f.subtype))
            /\ requests' = Append(requests,
                   [req EXCEPT !.resume_id = Len(resumes) + 1])
    /\ UNCHANGED <<jobs, evaluations, feedback>>
    /\ UNCHANGED <<normVars, scoreVars, threadVars, extractVars, feedbackVars>>

\* upload_resume from parse_resume(file_path, file_type.split('/')[-1]) on:
\* the parsed fields and 'completed', or 'failed' and str(e), then the commit
ContinueUpload(r) ==
    LET req == requests[r] IN
    /\ req.route \in UploadRoutes
    /\ req.pc # "done"
    /\ \E result \in ParseResumeFile(req.file.subtype, req.file.read) :
          IF IsRaise(result.outcome)
          THEN /\ resumes' = [resumes EXCEPT ![req.resume_id] =
                      [@ EXCEPT !.parsing_status = "failed",
                                !.parsing_errors = PyStr(result.outcome.exception)]]
               /\ requests' = [requests EXCEPT ![r] =
                      Caught(req, result.outcome.exception,
                             "Resume uploaded but parsing failed")]
          ELSE /\ resumes' = [resumes EXCEPT ![req.resume_id] =
                      [@ EXCEPT !.parsing_status = "completed",
                                !.parsed = result.outcome.value]]
               /\ requests' = [requests EXCEPT ![r] = Respond(req, 200, "")]
    /\ UNCHANGED <<jobs, evaluations, feedback>>
    /\ UNCHANGED <<normVars, scoreVars, threadVars, extractVars, feedbackVars>>

\* the lists of resume ids that a batch request can carry
BatchInputs == ListsUpTo(1..(MaxResumes + 1), MaxBatch)

RoutesInit ==
    /\ resumes = <<>>
    /\ jobs = <<>>
    /\ evaluations = <<>>
    /\ feedback = <<>>
    /\ requests = <<>>
    /\ NormUnused
    /\ ScoreUnused
    /\ ThreadsUnused
    /\ ExtractUnused
    /\ FeedbackUnused

RoutesNext ==
    \/ CreateJob
    \/ \E route \in EvaluateRoutes, resume_id \in ResumeIdInputs,
          job_id \in JobIdInputs : ReceiveEvaluate(route, resume_id, job_id)
    \/ \E r \in DOMAIN requests : ContinueEvaluate(r)
    \/ \E job_id \in JobIdInputs, resume_ids \in BatchInputs :
          ReceiveBatch(job_id, resume_ids)
    \/ \E r \in DOMAIN requests : ContinueBatch(r)
    \/ \E route \in UploadRoutes, f \in UploadedFiles : ReceiveUpload(route, f)
    \/ \E r \in DOMAIN requests : ContinueUpload(r)

SpecRoutes == RoutesInit /\ [][RoutesNext]_vars

-----------------------------------------------------------------------------
(* Evaluation requests *)

SamePair(a, b) ==
    /\ a.resume_id = b.resume_id
    /\ a.job_description_id = b.job_description_id

EvaluatesParsedResume(resume_id, job_id) ==
    /\ resume_id \in DOMAIN resumes
    /\ job_id \in DOMAIN jobs
    /\ resumes[resume_id].parsing_status = "completed"

\* C12: a request that names a resume or a job that does not exist, or a
\* resume whose parsing_status is not 'completed', makes no Evaluation and
\* starts no scoring; every row of evaluations references an existing job and
\* an existing resume whose parsing_status is 'completed'.
EvaluationNeedsParsedResumeAndJob ==
    /\ \A r \in DOMAIN requests :
          LET req == requests[r] IN
          /\ (req.route \in EvaluateRoutes /\ req.evaluation # PyNone)
                => EvaluatesParsedResume(req.resume_id, req.job_id)
          /\ (req.route \in EvaluateRoutes /\ req.pc # "done")
                => EvaluatesParsedResume(req.resume_id, req.job_id)
          /\ (req.route = BatchRoute /\ req.pc \in {"insert", "score"})
                => EvaluatesParsedResume(req.resume_ids[req.position], req.job_id)
    /\ \A i \in DOMAIN evaluations :
          EvaluatesParsedResume(evaluations[i].resume_id,
                                evaluations[i].job_description_id)

\* A request named a stored resume that is not parsed and was rejected.
UnparsedResumeRejected ==
    \E r \in DOMAIN requests :
        /\ requests[r].route \in EvaluateRoutes
        /\ requests[r].resume_id \in DOMAIN resumes
        /\ requests[r].job_id \in DOMAIN jobs
        /\ requests[r].error = "Resume must be parsed before evaluation"
        /\ requests[r].evaluation = PyNone

\* C14: every committed row of evaluations has a relevance_score that is not
\* null and lies in [0, 100], and a fit_verdict that is one of high, medium
\* and low: no reader can see an evaluation before its scores are computed.
CommittedEvaluationsAreScored ==
    \A i \in DOMAIN evaluations :
        /\ evaluations[i].relevance_score # PyNone
        /\ evaluations[i].relevance_score.int \in 0..10000
        /\ evaluations[i].fit_verdict # PyNone
        /\ evaluations[i].fit_verdict.str \in FitVerdicts

\* A request committed its Evaluation before the scoring, and the table
\* refused the row.
ScorelessCommitRefused ==
    \E r \in DOMAIN requests :
        /\ requests[r].route \in EvaluateRoutes \cup {BatchRoute}
        /\ requests[r].evaluation = PyInt(0)
        /\ evaluations = <<>>

\* how often x occurs in a list
RECURSIVE Count(_, _)
Count(x, list) ==
    IF list = <<>> THEN 0
    ELSE (IF Head(list) = x THEN 1 ELSE 0) + Count(x, Tail(list))

\* the resume ids of the entries of results and errors
Recorded(req) ==
    [i \in 1..Len(req.results) |-> req.results[i].resume_id]
        \o [i \in 1..Len(req.errors) |-> req.errors[i].resume_id]

-----------------------------------------------------------------------------
(* Upload requests *)

\* whether parse_resume raises for the file
ParseRaises(f) ==
    \A result \in ParseResumeFile(f.subtype, f.read) : IsRaise(result.outcome)

\* the state of the Resume record of an upload request
UploadOutcome ==
    \A r \in DOMAIN requests :
        LET req == requests[r] IN
        req.route \in UploadRoutes =>
            /\ req.resume_id \in DOMAIN resumes
            /\ LET resume == resumes[req.resume_id] IN
               IF req.pc # "done"
               THEN resume.parsing_status = "processing"
               ELSE IF ParseRaises(req.file)
               THEN /\ resume.parsing_status = "failed"
                    /\ resume.parsing_errors = PyStr(req.raised)
                    /\ resume.parsed = PyNone
               ELSE /\ resume.parsing_status = "completed"
                    /\ resume.parsed # PyNone

\* no step takes a record out of 'completed' or 'failed'
StatusIsFinal ==
    \A id \in DOMAIN resumes :
        resumes[id].parsing_status \in {"completed", "failed"} =>
            /\ id \in DOMAIN resumes'
            /\ resumes'[id].parsing_status = resumes[id].parsing_status

\* C17: an upload route creates a Resume record with parsing_status
\* 'processing'; when parse_resume raises the record ends 'failed' with the
\* error text in parsing_errors and no parsed fields, otherwise it ends
\* 'completed' with the parsed fields; a record never leaves 'completed' or
\* 'failed'.
UploadEndsCompletedOrFailed == []UploadOutcome /\ [][StatusIsFinal]_vars

-----------------------------------------------------------------------------
(* Text extraction: parse_resume on a file of a declared type *)

\* declared types as callers write them: the four supported ones, the same in
\* other cases, MIME subtypes, and types that no reader handles
DeclaredTypes ==
    {Pdf, Doc, Docx, Txt,
     <<"P", "D", "F">>, <<"D", "o", "c", "x">>, <<"T", "X", "T">>,
     <<"r", "t", "f">>, <<"p", "l", "a", "i", "n">>,
     <<"m", "s", "w", "o", "r", "d">>, <<"p", "d", "f", "x">>, <<>>}

\* what a reader makes of the file when it is invoked
ReadOutcomes ==
    {Ok(t) : t \in TextsUpTo(ResumeVocabulary, MaxResumeWords)}
        \cup {Raise("PdfReadError"), Raise("FileNotFoundError")}

ExtractInit ==
    /\ NormUnused
    /\ ScoreUnused
    /\ StoreUnused
    /\ ThreadsUnused
    /\ FeedbackUnused
    /\ file \in [file_type : DeclaredTypes, read : ReadOutcomes]
    /\ parsed_data = NotCalled

\* parsed_data = parser.parse_resume(file_path, file_type)
ParseFile ==
    /\ parsed_data = NotCalled
    /\ \E result \in ParseResumeFile(file.file_type, file.read) :
           parsed_data' = Value(result)
    /\ UNCHANGED file
    /\ UNCHANGED <<normVars, scoreVars, storeVars, threadVars, feedbackVars>>

ExtractNext == ParseFile

SpecExtract == ExtractInit /\ [][ExtractNext]_vars

SupportedTypes == {Pdf, Doc, Docx, Txt}

\* the result of parse_resume for a file declared as `declared`: the reader
\* of that type ran and no other; for a type outside the four no reader ran
\* and the call raised the unsupported-type error instead of returning
Dispatched(declared, result) ==
    /\ declared = Pdf => result.reader = "_extract_from_pdf"
    /\ declared \in {Doc, Docx} => result.reader = "_extract_from_docx"
    /\ declared = Txt => result.reader = "_extract_from_txt"
    /\ declared \notin SupportedTypes =>
           /\ result.reader = "none"
           /\ result.outcome = Raise("ValueError: Unsupported file type")
    /\ result.reader # "none" /\ IsRaise(file.read) =>
           result.outcome = file.read

\* C18, as stated: text extraction dispatches on the declared type as it is
\* written: pdf to the PDF reader, doc and docx to the DOCX reader, txt to the
\* text reader, and every other declared type fails with the unsupported-type
\* error without a reader being invoked, which parse_resume propagates.
DispatchOnDeclaredType ==
    parsed_data # NotCalled => Dispatched(file.file_type, parsed_data[1])

\* C18: text extraction dispatches on the declared type in lower case: pdf
\* goes to the PDF reader, doc and docx to the DOCX reader, txt to the text
\* reader, whatever the case of the letters; every other declared type fails
\* with the unsupported-type error without a reader being invoked, and
\* parse_resume propagates that error (and every error of a reader) instead
\* of returning a parsed resume.
DispatchOnLowerCasedType ==
    parsed_data # NotCalled => Dispatched(Lower(file.file_type), parsed_data[1])

\* a readable file of a type outside the four was refused, no reader invoked
UnsupportedTypeRefused ==
    /\ parsed_data # NotCalled
    /\ Lower(file.file_type) \notin SupportedTypes
    /\ IsOk(file.read) /\ file.read.value # <<>>
    /\ parsed_data[1].reader = "none"
    /\ IsRaise(parsed_data[1].outcome)

-----------------------------------------------------------------------------
(* FeedbackGenerator *)

\* self.resource_recommendations, flattened in the order in which
\* _get_skill_resources walks it
ResourceRecommendations ==
    <<[skill_name |-> <<"p", "y", "t", "h", "o", "n">>,
       resources |-> <<"Python for Data Science - Coursera",
                       "Automate the Boring Stuff with Python",
                       "Python.org Official Tutorial">>],
      [skill_name |-> <<"j", "a", "v", "a", "s", "c", "r", "i", "p", "t">>,
       resources |-> <<"JavaScript: The Complete Guide - Udemy",
                       "MDN Web Docs - JavaScript Guide",
                       "Eloquent JavaScript Book">>],
      [skill_name |-> <<"j", "a", "v", "a">>,
       resources |-> <<"Java Programming Masterclass - Udemy",
                       "Oracle Java Tutorials",
                       "Effective Java by Joshua Bloch">>],
      [skill_name |-> <<"r", "e", "a", "c", "t">>,
       resources |-> <<"React Official Documentation",
                       "React - The Complete Guide - Udemy",
                       "React Patterns and Best Practices">>],
      [skill_name |-> <<"d", "j", "a", "n", "g", "o">>,
       resources |-> <<"Django Girls Tutorial",
                       "Django Official Documentation",
                       "Two Scoops of Django Book">>],
      [skill_name |-> <<"a", "w", "s">>,
       resources |-> <<"AWS Certified Solutions Architect - A Cloud Guru",
                       "AWS Free Tier Hands-on Labs",
                       "AWS Well-Architected Framework">>],
      [skill_name |-> <<"a", "z", "u", "r", "e">>,
       resources |-> <<"Microsoft Learn - Azure Fundamentals",
                       "Azure Architecture Center",
                       "Azure Certification Paths">>],
      [skill_name |-> <<"l", "e", "a", "d", "e", "r", "s", "h", "i", "p">>,
       resources |-> <<"Leadership and Management - Coursera",
                       "The 7 Habits of Highly Effective People",
                       "Harvard Business Review Leadership Articles">>],
      [skill_name |-> <<"c", "o", "m", "m", "u", "n", "i", "c", "a", "t", "i", "o", "n">>,
       resources |-> <<"Effective Communication - Coursera",
                       "Crucial Conversations Book",
                       "Toastmasters International">>]>>

\* _get_skill_resources: the resources of the first entry whose name is in
\* the skill or has the skill in it
GetSkillResources(skill) ==
    LET skill_lower == Lower(skill)
        hits == {i \in DOMAIN ResourceRecommendations :
                    \/ IsSubstring(ResourceRecommendations[i].skill_name, skill_lower)
                    \/ IsSubstring(skill_lower, ResourceRecommendations[i].skill_name)}
    IN  [courses |-> IF hits = {} THEN <<>>
                     ELSE ResourceRecommendations[Least(hits)].resources,
         books |-> <<>>,
         platforms |-> <<>>]

\* _get_certification_resources
GetCertificationResources(cert) ==
    LET cert_lower == Lower(cert) IN
    IF IsSubstring(<<"a", "w", "s">>, cert_lower)
    THEN <<"AWS Training and Certification", "A Cloud Guru", "Linux Academy">>
    ELSE IF IsSubstring(<<"a", "z", "u", "r", "e">>, cert_lower)
    THEN <<"Microsoft Learn", "Pluralsight", "Cloud Academy">>
    ELSE IF \/ IsSubstring(<<"g", "c", "p">>, cert_lower)
            \/ IsSubstring(<<"g", "o", "o", "g", "l", "e">>, cert_lower)
    THEN <<"Google Cloud Training", "Coursera", "Qwiklabs">>
    ELSE <<"Official certification website", "Study guides", "Practice exams">>

\* a fallback that has one text for every verdict
FallbackOneTemplate(relevance_score, fit_verdict) ==
    <<"While your current profile shows a lower match (",
      relevance_score,
      "%) for this specific role, there are clear paths to improve your candidacy. Focus on developing the key skills and experience mentioned in the job requirements.">>

\* _generate_fallback_feedback: the three f-strings, each as the text before
\* the score, the score, and the text after it
GenerateFallbackFeedback(relevance_score, fit_verdict) ==
    IF fit_verdict = "high"
    THEN <<"Congratulations! Your resume shows a strong match (",
           relevance_score,
           "%) for this position. Your technical skills and experience align well with the job requirements. Continue building on your strengths and consider applying for similar roles.">>
    ELSE IF fit_verdict = "medium"
    THEN <<"Your resume shows a moderate match (",
           relevance_score,
           "%) for this position. There are several areas where you can strengthen your candidacy. Focus on developing the missing skills and gaining relevant experience to improve your chances.">>
    ELSE <<"While your current profile shows a lower match (",
           relevance_score,
           "%) for this specific role, there are clear paths to improve your candidacy. Focus on developing the key skills and experience mentioned in the job requirements.">>

\* _generate_overall_feedback: the stripped content of the response, or the
\* fallback when anything in the try block raises
GenerateOverallFeedback(evaluation, ai) ==
    IF ai = "responds" THEN <<"narrative">>
    ELSE GenerateFallbackFeedback(evaluation.relevance_score, evaluation.fit_verdict)

\* _generate_skill_improvements
GenerateSkillImprovements(evaluation) ==
    LET missing_skills == Take(evaluation.missing_skills, 5) IN
    [i \in DOMAIN missing_skills |->
        [skill |-> missing_skills[i],
         current_level |-> "Not mentioned",
         target_level |-> "Proficient",
         suggestion |-> <<"Focus on developing ", missing_skills[i],
                          " skills through hands-on projects and practice">>,
         timeline |-> "3-6 months",
         resources |-> GetSkillResources(missing_skills[i])]]

\* an entry also for a resume whose two years for each position just reach
\* the years of the job
ExperienceImprovementsAtMost(resume, job) ==
    LET job_experience_years == Get(job.experience_years, PyInt(0)) IN
    IF ~IsInt(job_experience_years) THEN Raise("TypeError")
    ELSE IF /\ job_experience_years.int > 0
            /\ Len(resume.experience) * 2 <= job_experience_years.int
    THEN Ok(<<[area |-> "Work Experience",
               timeline |-> "6-12 months",
               priority |-> "High"]>>)
    ELSE Ok(<<>>)

\* _generate_experience_improvements; None > 0 raises TypeError
GenerateExperienceImprovements(resume, job) ==
    LET resume_experience == resume.experience
        job_experience_years == Get(job.experience_years, PyInt(0))
    IN  IF ~IsInt(job_experience_years) THEN Raise("TypeError")
        ELSE IF /\ job_experience_years.int > 0
                /\ Len(resume_experience) * 2 < job_experience_years.int
        THEN Ok(<<[area |-> "Work Experience",
                   current_situation |-> <<"Currently have ", Len(resume_experience),
                                           " positions listed">>,
                   target_situation |-> <<"Job requires ", job_experience_years.int,
                                          " years of experience">>,
                   suggestion |-> "Consider gaining additional relevant work experience through internships, freelance projects, or volunteer work",
                   timeline |-> "6-12 months",
                   priority |-> "High"]>>)
        ELSE Ok(<<>>)

\* _generate_education_improvements
GenerateEducationImprovements(resume, job) ==
    LET job_education == job.education_required
        resume_education == resume.education
    IN  IF IsStr(job_education) /\ job_education.str # <<>> /\ resume_education = <<>>
        THEN <<[area |-> "Education",
                requirement |-> job_education.str,
                suggestion |-> <<"Consider pursuing ", job_education.str,
                                 " to meet the job requirements">>,
                alternatives |-> <<"Online courses and certifications",
                                   "Professional development programs",
                                   "Self-study with practical projects">>,
                timeline |-> "1-2 years",
                priority |-> "Medium"]>>
        ELSE <<>>

\* _generate_certification_suggestions: the required certifications that are
\* not, as they are written, in the resume's list
GenerateCertificationSuggestions(resume, job) ==
    LET job_certs == job.certifications_required
        resume_certs == resume.certifications
        missing == SelectSeq(job_certs, LAMBDA cert : cert \notin Range(resume_certs))
    IN  [i \in DOMAIN missing |->
            [certification |-> missing[i],
             importance |-> "Required",
             suggestion |-> <<"Obtain ", missing[i],
                              " certification to meet job requirements">>,
             study_time |-> "2-4 months",
             cost |-> "Varies by certification",
             resources |-> GetCertificationResources(missing[i])]]

\* _generate_project_suggestions
GenerateProjectSuggestions(evaluation) ==
    LET missing_skills == Take(evaluation.missing_skills, 3) IN
    [i \in DOMAIN missing_skills |->
        [project_type |-> <<missing_skills[i], " Project">>,
         description |-> <<"Build a practical project using ", missing_skills[i],
                           " to demonstrate your skills">>,
         technologies |-> <<missing_skills[i]>>,
         timeline |-> "1-2 months",
         difficulty |-> "Intermediate",
         portfolio_value |-> "High"]]

\* _generate_immediate_actions
GenerateImmediateActions(evaluation) ==
    LET missing_skills == evaluation.missing_skills IN
    <<[action |-> "Update Resume",
       description |-> <<"Incorporate missing skills and keywords from job description">>,
       timeline |-> "1 week",
       priority |-> "High"]>>
    \o (IF missing_skills # <<>>
        THEN <<[action |-> "Start Skill Development",
                description |-> <<"Begin learning ", missing_skills[1],
                                  " through online courses">>,
                timeline |-> "2 weeks",
                priority |-> "High"]>>
        ELSE <<>>)
    \o <<[action |-> "Network and Research",
          description |-> <<"Connect with professionals in the field and research the company">>,
          timeline |-> "1 week",
          priority |-> "Medium"]>>

\* _generate_long_term_goals
GenerateLongTermGoals ==
    <<[goal |-> "Master Key Technologies",
       timeline |-> "6-12 months",
       milestones |-> <<"Complete 3 projects", "Obtain 2 certifications",
                        "Contribute to open source">>],
      [goal |-> "Build Relevant Experience",
       timeline |-> "6-18 months",
       milestones |-> <<"Complete 5 projects", "Work with 2 companies",
                        "Build professional network">>],
      [goal |-> "Career Advancement",
       timeline |-> "1-3 years",
       milestones |-> <<"Lead a team project", "Mentor junior developers",
                        "Speak at conferences">>]>>

\* _generate_resource_recommendations
GenerateResourceRecommendations(evaluation) ==
    LET missing_skills == Take(evaluation.missing_skills, 3) IN
    [courses |-> Flatten([i \in DOMAIN missing_skills |->
                             GetSkillResources(missing_skills[i]).courses]),
     books |-> Flatten([i \in DOMAIN missing_skills |->
                           GetSkillResources(missing_skills[i]).books]),
     platforms |-> <<"Coursera - Online courses from top universities",
                     "Udemy - Practical skill-based courses",
                     "LinkedIn Learning - Professional development",
                     "edX - Free courses from universities">>,
     communities |-> <<"GitHub - Open source contributions",
                       "Stack Overflow - Technical Q&A",
                       "Reddit - r/programming, r/cscareerquestions",
                       "Discord - Developer communities">>]

\* a priority that looks at the score alone
PriorityOfScore(relevance_score, fit_verdict) ==
    IF relevance_score < 4000 THEN "high"
    ELSE IF relevance_score < 7000 THEN "medium"
    ELSE "low"

\* _determine_feedback_priority, the score in hundredths
DetermineFeedbackPriority(relevance_score, fit_verdict) ==
    IF fit_verdict = "low" \/ relevance_score < 4000 THEN "high"
    ELSE IF fit_verdict = "medium" \/ relevance_score < 7000 THEN "medium"
    ELSE "low"

\* generate_feedback: the bundle, or the exception that it logs and raises
\* again ('generated_at', the time of the call, is left out)
GenerateFeedback(evaluation, resume, job, ai) ==
    LET relevance_score == evaluation.relevance_score
        fit_verdict == evaluation.fit_verdict
        experience_improvements == GenerateExperienceImprovements(resume, job)
    IN  IF IsRaise(experience_improvements) THEN experience_improvements
        ELSE Ok([overall_feedback |-> GenerateOverallFeedback(evaluation, ai),
                 skill_improvements |-> GenerateSkillImprovements(evaluation),
                 experience_improvements |-> experience_improvements.value,
                 education_improvements |-> GenerateEducationImprovements(resume, job),
                 certification_suggestions |->
                     GenerateCertificationSuggestions(resume, job),
                 project_suggestions |-> GenerateProjectSuggestions(evaluation),
                 immediate_actions |-> GenerateImmediateActions(evaluation),
                 long_term_goals |-> GenerateLongTermGoals,
                 resource_recommendations |->
                     GenerateResourceRecommendations(evaluation),
                 feedback_type |-> "automatic",
                 priority |-> DetermineFeedbackPriority(relevance_score, fit_verdict),
                 generation_metadata |->
                     [generator_version |-> "1.0.0",
                      relevance_score |-> relevance_score,
                      fit_verdict |-> fit_verdict]])

-----------------------------------------------------------------------------
(* Feedback for a scored pair *)

Python == <<"p", "y", "t", "h", "o", "n">>
Java == <<"J", "a", "v", "a">>

\* the resumes and jobs of the scored pairs
FeedbackResumes ==
    {[skills |-> <<<<"a", "b">>>>, experience |-> e,
      education |-> s.education, certifications |-> s.certifications,
      projects |-> <<>>, cleaned_text |-> <<"a", "b">>] :
         e \in {<<>>, Repeat([title |-> <<"d", "e", "v">>], 1)},
         s \in {[education |-> <<>>, certifications |-> <<>>],
                [education |-> <<[degree |-> <<"B", "S">>]>>,
                 certifications |-> <<<<"a", "w", "s">>>>]}}

FeedbackJobs ==
    {[skills_required |-> q, skills_preferred |-> <<>>,
      experience_level |-> "entry", experience_years |-> years,
      education_required |-> r.education_required,
      certifications_required |-> r.certifications_required,
      keywords |-> <<<<"a", "b">>>>, cleaned_text |-> <<"c">>,
      description |-> <<"c">>] :
         q \in {<<>>, <<Python, Java, <<"g", "o">>, <<"a", "b">>>>},
         years \in {PyAbsent, PyNone, PyInt(0), PyInt(2), PyInt(5)},
         r \in {[education_required |-> PyNone, certifications_required |-> <<>>],
                [education_required |-> PyStr(<<"b", "s", " ", "c", "s">>),
                 certifications_required |-> <<<<"A", "W", "S">>, <<"a", "w", "s">>>>]}}

\* overall scores around the thresholds of the verdict and of the priority
OverallScoreSamples ==
    {Zero, Rat(39996, 100000), Rat(4, 10), Rat(59999, 100000), Rat(6, 10),
     Rat(69996, 100000), Rat(7, 10), Rat(79996, 100000), Rat(8, 10), One}

\* (relevance_score, fit_verdict) as _determine_fit_verdict and round() make
\* them of one overall score
ScoredPairs ==
    {[relevance_score |-> Round2Pct(q), fit_verdict |-> DetermineFitVerdict(q)] :
        q \in OverallScoreSamples}

\* any relevance_score (in hundredths) with any fit_verdict
GivenPairs ==
    [relevance_score : {0, 3999, 4000, 6999, 7000, 8500},
     fit_verdict : {"high", "medium", "low", "unknown"}]

\* evaluation_data is what calculate_relevance_score returned for the resume
\* and the job, as it is or with another relevance_score and fit_verdict
FeedbackInit ==
    /\ NormUnused
    /\ StoreUnused
    /\ ThreadsUnused
    /\ ExtractUnused
    /\ job_text = Unused
    /\ similarity = Unused
    /\ calls = Unused
    /\ returned = Unused
    /\ resume_data \in FeedbackResumes
    /\ job_data \in FeedbackJobs
    /\ \E sim \in SimilaritySamples :
           LET scoring_result ==
                   CalculateRelevanceScore(resume_data, job_data, sim, "raises")
           IN  /\ IsOk(scoring_result)
               /\ evaluation_data \in
                      {scoring_result.value}
                      \cup {[scoring_result.value
                                EXCEPT !.relevance_score = pair.relevance_score,
                                       !.fit_verdict = pair.fit_verdict] :
                               pair \in ScoredPairs \cup GivenPairs}
    /\ feedback_data = [ai \in AiOutcomes |-> NotCalled]

\* feedback_data = feedback_generator.generate_feedback(scoring_result,
\* resume_data, job_data), the narrative call responding or raising
Generate(ai) ==
    /\ feedback_data[ai] = NotCalled
    /\ feedback_data' =
           [feedback_data EXCEPT
               ![ai] = Value(GenerateFeedback(evaluation_data, resume_data,
                                              job_data, ai))]
    /\ UNCHANGED evaluation_data
    /\ UNCHANGED <<normVars, scoreVars, storeVars, threadVars, extractVars>>

FeedbackNext == \E ai \in AiOutcomes : Generate(ai)

SpecFeedback == FeedbackInit /\ [][FeedbackNext]_vars

\* the bundles returned so far
Bundles ==
    {feedback_data[ai][1].value : ai \in {a \in AiOutcomes :
        feedback_data[a] # NotCalled /\ IsOk(feedback_data[a][1])}}

\* the pair is one that the scorer makes of an overall score
DerivedFromScore(evaluation) ==
    \/ [relevance_score |-> evaluation.relevance_score,
        fit_verdict |-> evaluation.fit_verdict] \in ScoredPairs
    \/ \E sim \in SimilaritySamples :
           LET scoring_result ==
                   CalculateRelevanceScore(resume_data, job_data, sim, "raises").value
           IN  /\ evaluation.relevance_score = scoring_result.relevance_score
               /\ evaluation.fit_verdict = scoring_result.fit_verdict

\* C19: for every relevance_score and fit_verdict the priority of the bundle
\* is 'high' if the verdict is 'low' or the score is below 40, otherwise
\* 'medium' if the verdict is 'medium' or the score is below 70, otherwise
\* 'low'; when the pair is one that the scorer derives from an overall score,
\* the priority is 'low' exactly when the verdict is 'high'.
PriorityFollowsVerdictAndScore ==
    \A bundle \in Bundles :
        LET score == evaluation_data.relevance_score
            verdict == evaluation_data.fit_verdict
            urgent == verdict = "low" \/ score < 4000
            middling == verdict = "medium" \/ score < 7000
        IN  /\ urgent => bundle.priority = "high"
            /\ (~urgent /\ middling) => bundle.priority = "medium"
            /\ (~urgent /\ ~middling) => bundle.priority = "low"
            /\ DerivedFromScore(evaluation_data) =>
                   (bundle.priority = "low" <=> verdict = "high")

\* C19 witness: an overall score just below 0.8 is reported as 80.0 with the
\* verdict 'medium', and the priority is 'medium'
MediumVerdictAtEighty ==
    /\ Bundles # {}
    /\ evaluation_data.relevance_score = 8000
    /\ evaluation_data.fit_verdict = "medium"
    /\ DerivedFromScore(evaluation_data)
    /\ \A bundle \in Bundles : bundle.priority = "medium"

BundleFields ==
    {"overall_feedback", "skill_improvements", "experience_improvements",
     "education_improvements", "certification_suggestions",
     "project_suggestions", "immediate_actions", "long_term_goals",
     "resource_recommendations", "feedback_type", "priority",
     "generation_metadata"}

\* how the template of a verdict begins
TemplateOpening(fit_verdict) ==
    IF fit_verdict = "high"
    THEN "Congratulations! Your resume shows a strong match ("
    ELSE IF fit_verdict = "medium"
    THEN "Your resume shows a moderate match ("
    ELSE "While your current profile shows a lower match ("

-----------------------------------------------------------------------------
(* The TfidfVectorizer that the calls of one service instance share *)

\* Two calls at a time on the module-level instances of routes/api.py.
MaxThreads == 2

\* the tokens of the sample texts, lower-cased and without stop words, in
\* alphabetical order
Tokens == <<"aws", "docker", "java", "linux", "python", "react", "sql">>

TokenIndex(token) == CHOOSE i \in DOMAIN Tokens : Tokens[i] = token

\* the order of two features (a token, or two adjacent tokens joined by a
\* space) as strings
FeatureLess(f, g) ==
    \/ TokenIndex(f[1]) < TokenIndex(g[1])
    \/ /\ f[1] = g[1]
       /\ \/ Len(f) < Len(g)
          \/ Len(f) = 2 /\ Len(g) = 2 /\ TokenIndex(f[2]) < TokenIndex(g[2])

\* sorted(features)
RECURSIVE SortedFeatures(_)
SortedFeatures(features) ==
    IF features = {} THEN <<>>
    ELSE LET first == CHOOSE f \in features :
                          \A g \in features \ {f} : FeatureLess(f, g)
         IN  <<first>> \o SortedFeatures(features \ {first})

\* the features of one document with ngram_range=(1, 2)
FeaturesOf(document) ==
    {<<document[i]>> : i \in DOMAIN document}
        \cup {<<document[i], document[i + 1]>> : i \in 1..(Len(document) - 1)}

\* the number of documents that have the feature
DocumentFrequency(feature, documents) ==
    Cardinality({d \in DOMAIN documents : feature \in FeaturesOf(documents[d])})

\* CountVectorizer.fit_transform with min_df=1, max_df=0.8: the vocabulary in
\* alphabetical order, or the ValueError for an empty vocabulary, for
\* max_df * n_doc < min_df, and for a vocabulary that pruning empties
CountVocabulary(documents) ==
    LET n_doc == Len(documents)
        vocabulary == UNION {FeaturesOf(documents[d]) : d \in DOMAIN documents}
        kept == {f \in vocabulary :
                    10 * DocumentFrequency(f, documents) <= 8 * n_doc}
    IN  IF vocabulary = {} THEN Raise("ValueError")
        ELSE IF 8 * n_doc < 10 THEN Raise("ValueError")
        ELSE IF kept = {} THEN Raise("ValueError")
        ELSE Ok(SortedFeatures(kept))

\* the rows of the tf-idf matrix as far as the callers look at them: for
\* every column the number of columns that its document fills. A sample text
\* has two documents and no token twice in a document, so every column is
\* filled by one document with the same tf and idf, and its normalised
\* weight there is 1/sqrt(that number).
ColumnFill(vocabulary, documents) ==
    [j \in DOMAIN vocabulary |->
        LET d == CHOOSE i \in DOMAIN documents :
                     vocabulary[j] \in FeaturesOf(documents[i])
        IN  Cardinality({h \in DOMAIN vocabulary :
                            vocabulary[h] \in FeaturesOf(documents[d])})]

\* the indices of `fill` by descending mean score, equal scores in the order
\* of the list (list.sort is stable)
RECURSIVE ByScore(_, _)
ByScore(fill, remaining) ==
    IF remaining = {} THEN <<>>
    ELSE LET best == CHOOSE j \in remaining :
                         \A h \in remaining :
                             fill[j] < fill[h] \/ (fill[j] = fill[h] /\ j <= h)
         IN  <<best>> \o ByScore(fill, remaining \ {best})

\* _extract_keywords after fit_transform: zip(feature_names, mean_scores),
\* sorted by score, the first 20 names
TopKeywords(feature_names, fill) ==
    LET n == IF Len(feature_names) < Len(fill) THEN Len(feature_names) ELSE Len(fill)
        order == ByScore(fill, 1..n)
    IN  Take([i \in DOMAIN order |-> feature_names[order[i]]], 20)

\* cosine_similarity of the two rows: 0 when no column is filled by both
\* documents, which is so for every vocabulary that CountVocabulary returns
\* for two documents (max_df removes a feature that both have); otherwise a
\* number above 0, of which the model keeps no more than that
CosineSimilarity(vocabulary, documents) ==
    IF \E j \in DOMAIN vocabulary :
           DocumentFrequency(vocabulary[j], documents) = 2
    THEN Half
    ELSE Zero

\* what a call returns when its try block raises: [] from _extract_keywords,
\* 0.0 from _calculate_text_similarity
Fallback(method) ==
    IF method = "_extract_keywords" THEN <<>> ELSE Zero

\* a call that no other call interleaves with
RunAlone(method, documents) ==
    LET counted == CountVocabulary(documents) IN
    IF IsRaise(counted) THEN Fallback(method)
    ELSE IF method = "_extract_keywords"
    THEN TopKeywords(counted.value, ColumnFill(counted.value, documents))
    ELSE CosineSimilarity(counted.value, documents)

\* the calls: the sentences of a job text for _extract_keywords, the two
\* texts for _calculate_text_similarity
DocumentSamples ==
    {<<<<"python">>, <<"java">>>>,
     <<<<"docker">>, <<"linux">>>>,
     <<<<"sql", "aws">>, <<"react">>>>,
     <<<<"python", "java">>, <<"python", "sql">>>>,
     <<<<"java">>>>}

Methods == {"_extract_keywords", "_calculate_text_similarity"}

\* self.vectorizer of the JobAnalyzer and of the RelevanceScorer
Owner(method) ==
    IF method = "_extract_keywords" THEN "job_analyzer" ELSE "relevance_scorer"

\* a call before its first step; _calculate_text_similarity has two texts
Calls ==
    {call \in {[method |-> m, documents |-> d, pc |-> "count",
                vocabulary |-> <<>>, result |-> NotCalled] :
                   m \in Methods, d \in DocumentSamples} :
        call.method = "_calculate_text_similarity" => Len(call.documents) = 2}

NotFitted == [vocabulary_ |-> <<>>, n_features |-> 0]

ThreadsInit ==
    /\ NormUnused
    /\ ScoreUnused
    /\ StoreUnused
    /\ ExtractUnused
    /\ FeedbackUnused
    /\ vectorizer = [job_analyzer |-> NotFitted, relevance_scorer |-> NotFitted]
    /\ threads \in [1..MaxThreads -> Calls]

Return(t, value) ==
    threads' = [threads EXCEPT ![t].pc = "done", ![t].result = Value(value)]

\* self.vectorizer.fit_transform: CountVectorizer.fit_transform counts the
\* documents and sets vocabulary_
CountVectorize(t) ==
    /\ threads[t].pc = "count"
    /\ LET counted == CountVocabulary(threads[t].documents) IN
       IF IsRaise(counted)
       THEN /\ Return(t, Fallback(threads[t].method))
            /\ UNCHANGED vectorizer
       ELSE /\ vectorizer' =
                   [vectorizer EXCEPT
                       ![Owner(threads[t].method)].vocabulary_ = counted.value]
            /\ threads' = [threads EXCEPT ![t].pc = "fit",
                                          ![t].vocabulary = counted.value]
    /\ UNCHANGED <<normVars, scoreVars, storeVars, extractVars, feedbackVars>>

\* self._tfidf.fit(X) sets the idf vector, one weight for each column of X
FitIdf(t) ==
    /\ threads[t].pc = "fit"
    /\ vectorizer' =
           [vectorizer EXCEPT
               ![Owner(threads[t].method)].n_features = Len(threads[t].vocabulary)]
    /\ threads' = [threads EXCEPT ![t].pc = "transform"]
    /\ UNCHANGED <<normVars, scoreVars, storeVars, extractVars, feedbackVars>>

\* self._tfidf.transform(X) multiplies X by the idf vector that is there now:
\* ValueError when it has another number of columns. The similarity is
\* returned; the keywords need the feature names
Transform(t) ==
    /\ threads[t].pc = "transform"
    /\ IF vectorizer[Owner(threads[t].method)].n_features # Len(threads[t].vocabulary)
       THEN Return(t, Fallback(threads[t].method))
       ELSE IF threads[t].method = "_calculate_text_similarity"
       THEN Return(t, CosineSimilarity(threads[t].vocabulary, threads[t].documents))
       ELSE threads' = [threads EXCEPT ![t].pc = "names"]
    /\ UNCHANGED vectorizer
    /\ UNCHANGED <<normVars, scoreVars, storeVars, extractVars, feedbackVars>>

\* feature_names = self.vectorizer.get_feature_names_out(), and the rest of
\* _extract_keywords
GetFeatureNamesOut(t) ==
    /\ threads[t].pc = "names"
    /\ LET feature_names == vectorizer[Owner(threads[t].method)].vocabulary_ IN
       Return(t, TopKeywords(feature_names,
                             ColumnFill(threads[t].vocabulary, threads[t].documents)))
    /\ UNCHANGED vectorizer
    /\ UNCHANGED <<normVars, scoreVars, storeVars, extractVars, feedbackVars>>

ThreadsNext ==
    \E t \in 1..MaxThreads :
        \/ CountVectorize(t)
        \/ FitIdf(t)
        \/ Transform(t)
        \/ GetFeatureNamesOut(t)

SpecThreads == ThreadsInit /\ [][ThreadsNext]_vars

\* C16: whatever the interleaving of the calls on one service instance, a
\* call of _calculate_text_similarity (the project-match and the semantic
\* similarity score) and a call of _extract_keywords return what they return
\* when they run alone.
ConcurrentCallsReturnAsAlone ==
    \A t \in 1..MaxThreads :
        threads[t].pc = "done" =>
            threads[t].result =
                Value(RunAlone(threads[t].method, threads[t].documents))

-----------------------------------------------------------------------------
(* Experience shortfall: the scorer's weaknesses and the feedback *)

\* the weaknesses of a returned result name the experience shortfall
ShortfallReported(result) ==
    \E i \in DOMAIN result.weaknesses :
        result.weaknesses[i].weakness = "experience"

\* C21: for every number of experience entries and every positive job
\* experience_years, the weaknesses of the result have the experience
\* shortfall exactly when the job asks for more years than the resume years
\* (2 for each entry, at most 20), which is exactly when the years score of
\* the experience score is below 1.0.
ShortfallIffYearsFallShort ==
    \A result \in Results :
        (IsInt(job_data.experience_years) /\ job_data.experience_years.int > 0) =>
            /\ ShortfallReported(result)
                   <=> job_data.experience_years.int > ClaimedResumeYears
            /\ ShortfallReported(result)
                   <=> RLt(calls[1].years_score.value, One)

\* C22: for one resume and one job, the bundle has an experience_improvements
\* entry (one, with timeline '6-12 months' and priority 'High') exactly when
\* the weaknesses of the scoring result have the experience shortfall, which
\* is exactly when the job's experience_years is above 0 and above twice the
\* number of experience entries; otherwise experience_improvements is empty.
ImprovementIffShortfall ==
    \A bundle \in Bundles :
        LET years == Get(job_data.experience_years, PyInt(0)).int
            improvements == bundle.experience_improvements
        IN  /\ improvements # <<>> <=> ShortfallReported(evaluation_data)
            /\ improvements # <<>>
                   <=> (years > 0 /\ 2 * Len(resume_data.experience) < years)
            /\ improvements # <<>> =>
                   /\ Len(improvements) = 1
                   /\ improvements[1].timeline = "6-12 months"
                   /\ improvements[1].priority = "High"

\* C22 witness: a job of 5 years and a resume of one position; the weaknesses
\* and the bundle both have the shortfall
ShortfallInWeaknessesAndFeedback ==
    /\ Bundles # {}
    /\ job_data.experience_years = PyInt(5)
    /\ Len(resume_data.experience) = 1
    /\ ShortfallReported(evaluation_data)
    /\ \A bundle \in Bundles : Len(bundle.experience_improvements) = 1

-----------------------------------------------------------------------------
(* ResumeParser: the skills and the experience of a text *)

\* words with a job title (patterns [3] and [2]), a skill in three letter
\* cases, and a soft skill
FieldVocabulary ==
    {<<"i", "n", "t", "e", "r", "n">>, <<"v", "p">>,
     <<"P", "y", "t", "h", "o", "n">>, <<"P", "Y", "T", "H", "O", "N">>,
     <<"p", "y", "t", "h", "o", "n">>,
     <<"L", "e", "a", "d", "e", "r", "s", "h", "i", "p">>}

MaxFieldWords == 3

\* more titles than _extract_experience keeps
MaxTitles == 11

\* the texts of at most MaxFieldWords words, and texts of MaxTitles titles
FieldTexts ==
    TextsUpTo(FieldVocabulary, MaxFieldWords)
        \cup {Join(Repeat(<<"v", "p">>, MaxTitles)),
              Join(<<<<"i", "n", "t", "e", "r", "n">>>>
                       \o Repeat(<<"v", "p">>, MaxTitles - 1))}

FieldsInit ==
    /\ ServicesUnused
    /\ text \in FieldTexts
    /\ resume_data = NotCalled
    /\ cleaned = Unused
    /\ recleaned = Unused
    /\ job_text = Unused
    /\ job_data = Unused
    /\ similarity = Unused
    /\ calls = Unused
    /\ returned = Unused

\* 'skills': self._extract_skills(text), 'experience':
\* self._extract_experience(text); list(skills) in any order
ExtractFields ==
    /\ resume_data = NotCalled
    /\ \E skills \in Orderings(ExtractSkills(text)) :
           resume_data' = [skills |-> skills,
                           experience |-> ExtractExperience(text)]
    /\ UNCHANGED <<text, cleaned, recleaned, job_text, job_data, similarity,
                   calls, returned>>
    /\ UNCHANGED serviceVars

FieldsNext == ExtractFields

SpecFields == FieldsInit /\ [][FieldsNext]_vars

\* every match of a title pattern in the text
TitleMatches ==
    UNION {Range(ExperienceEntries(text, JobPatterns[p])) : p \in DOMAIN JobPatterns}

\* C23: for every text _extract_experience returns at most 10 entries in the
\* order of the text: their positions do not decrease, and they are the first
\* (up to 10) matches of a title in the text.
ExperienceInTextOrder ==
    resume_data # NotCalled =>
        LET experience == resume_data.experience IN
        /\ Len(experience) <= 10
        /\ \A i, j \in DOMAIN experience :
               i < j => experience[i].position <= experience[j].position
        /\ Range(experience) \subseteq TitleMatches
        /\ Len(experience) = 10 \/ Range(experience) = TitleMatches
        /\ \A kept \in Range(experience), other \in TitleMatches \ Range(experience) :
               kept.position < other.position

\* the skills that the text names: of the database, or a soft skill
NamedSkills ==
    {k \in SkillsDatabase \cup Range(SoftSkillsPatterns) : IsSubstring(k, Lower(text))}

PythonThrice ==
    Join(<<<<"P", "y", "t", "h", "o", "n">>, <<"P", "Y", "T", "H", "O", "N">>,
           <<"p", "y", "t", "h", "o", "n">>>>)

\* C24: for every text every extracted skill is the title case of a skill of
\* the database or of a soft-skill match, and no two extracted skills are
\* equal in lower case, however often and in whatever letter case the text
\* names a skill: "Python PYTHON python" gives the one skill "Python".
SkillsAreTitleCasedOnce ==
    resume_data # NotCalled =>
        LET skills == resume_data.skills IN
        /\ \A i \in DOMAIN skills : \E k \in NamedSkills : skills[i] = Title(k)
        /\ \A i, j \in DOMAIN skills :
               Lower(skills[i]) = Lower(skills[j]) => i = j
        /\ text = PythonThrice => skills = <<<<"P", "y", "t", "h", "o", "n">>>>

\* C24 witness: the skills of "Python PYTHON python"
PythonThriceExtracted ==
    /\ text = PythonThrice
    /\ resume_data # NotCalled
    /\ resume_data.skills = <<<<"P", "y", "t", "h", "o", "n">>>>

-----------------------------------------------------------------------------
(* Experience level *)

\* titles: no keyword; 'sr' in upper case; a keyword of 'entry'; a keyword
\* of both 'lead' and 'senior'; a keyword of 'mid'
LevelTitles ==
    {<<"d", "e", "v">>,
     <<"S", "r", " ", "d", "e", "v">>,
     <<"i", "n", "t", "e", "r", "n">>,
     <<"T", "e", "a", "m", " ", "L", "e", "a", "d">>,
     <<"m", "i", "d">>}

MaxMixedTitles == 3

MaxPlainTitles == 6

\* every list of at most MaxMixedTitles titles, and longer lists of titles
\* without a keyword
LevelExperiences ==
    {[i \in DOMAIN titles |-> [title |-> titles[i]]] :
        titles \in ListsUpTo(LevelTitles, MaxMixedTitles)
                     \cup {Repeat(<<"d", "e", "v">>, n) : n \in 4..MaxPlainTitles}}

LevelJobYears == {PyAbsent, PyNone, PyInt(0), PyInt(2), PyInt(5), PyInt(13)}

LevelsInit ==
    /\ ServicesUnused
    /\ \E experience \in LevelExperiences,
          level \in Levels \cup {AbsentLevel}, years \in LevelJobYears :
          /\ resume_data = [EmptyResume EXCEPT !.experience = experience]
          /\ job_data = [EmptyJob EXCEPT !.experience_level = level,
                                         !.experience_years = years]
    /\ similarity = NoSimilarity
    /\ calls = NotCalled
    /\ returned = [ai \in AiOutcomes |-> NotCalled]
    /\ job_text = Unused
    /\ text = Unused
    /\ cleaned = Unused
    /\ recleaned = Unused

SpecLevels == LevelsInit /\ [][ScoreNext]_vars

\* some title of the resume contains a keyword of the group
GroupMatches(group) ==
    \E i \in DOMAIN resume_data.experience :
        \E keyword \in SeniorityKeywords[group] :
            IsSubstring(keyword, Lower(resume_data.experience[i].title))

\* the level by the first matching group, or by the number of entries
LevelByKeywordOrCount ==
    IF GroupMatches("lead") THEN "lead"
    ELSE IF GroupMatches("senior") THEN "senior"
    ELSE IF GroupMatches("mid") THEN "mid"
    ELSE IF GroupMatches("entry") THEN "entry"
    ELSE IF Len(resume_data.experience) < 2 THEN "entry"
    ELSE IF Len(resume_data.experience) <= 4 THEN "mid"
    ELSE "senior"

\* the level of the job: 'mid' when the key is absent
JobLevel ==
    IF job_data.experience_level = AbsentLevel THEN "mid"
    ELSE job_data.experience_level

\* C25: the resume level is that of the first keyword group, in the order
\* lead, senior, mid, entry, that some title matches, whatever the order of the
\* entries; without a keyword it is 'entry' below 2 entries, 'mid' for 2 to 4
\* and 'senior' from 5 on. The level shows in the experience score, whose
\* level part is the matrix entry of that level and the job's level.
LevelByFirstGroupOrCount ==
    (calls # NotCalled /\ IsOk(calls[1].experience_score)) =>
        calls[1].experience_score.value =
            RAdd(RMul(Rat(ExperienceScoring[LevelByKeywordOrCount][JobLevel], 10),
                      Rat(6, 10)),
                 RMul(calls[1].years_score.value, Rat(4, 10)))

\* C25 witness: an 'entry' title before a 'senior' title and a 'lead' title
\* last, scored as 'lead' against a 'lead' job
LeadFoundBehindOtherGroups ==
    /\ calls # NotCalled
    /\ Len(resume_data.experience) = 3
    /\ resume_data.experience[1].title = <<"i", "n", "t", "e", "r", "n">>
    /\ resume_data.experience[2].title = <<"S", "r", " ", "d", "e", "v">>
    /\ resume_data.experience[3].title = <<"T", "e", "a", "m", " ", "L", "e", "a", "d">>
    /\ job_data.experience_level = "lead"
    /\ job_data.experience_years = PyAbsent
    /\ calls[1].experience_score = Ok(One)

\* C26: for resume and job levels among entry, mid, senior and lead the
\* experience score is 0.6 * matrix[resume level][job level] + 0.4 * years
\* score; every matrix entry is in [0.2, 1.0] and 1.0 on the diagonal; the
\* score is in [0.12, 1.0], and 1.0 when the levels coincide and the resume
\* years reach the job years.
ExperienceScoreIsLevelAndYears ==
    /\ \A r \in Levels, j \in Levels :
           /\ 2 <= ExperienceScoring[r][j]
           /\ ExperienceScoring[r][j] <= 10
           /\ ExperienceScoring[r][r] = 10
    /\ (calls # NotCalled /\ IsOk(calls[1].experience_score)) =>
           LET score == calls[1].experience_score.value
               resume_level == DetermineResumeExperienceLevel(resume_data.experience)
               years == Get(job_data.experience_years, PyInt(0)).int
           IN  /\ resume_level \in Levels
               /\ score = RAdd(RMul(Rat(ExperienceScoring[resume_level][JobLevel], 10),
                                    Rat(6, 10)),
                               RMul(calls[1].years_score.value, Rat(4, 10)))
               /\ RLe(Rat(12, 100), score)
               /\ RLe(score, One)
               /\ (resume_level = JobLevel /\ ClaimedResumeYears >= years) =>
                      score = One

\* C26 witness: the least score, an 'entry' resume without years against a
\* 'lead' job
LeastExperienceScore ==
    /\ calls # NotCalled
    /\ resume_data.experience = <<>>
    /\ job_data.experience_level = "lead"
    /\ job_data.experience_years = PyInt(13)
    /\ calls[1].experience_score = Ok(Rat(12, 100))

-----------------------------------------------------------------------------
(* The declared type of an accepted upload *)

\* C27: for every file that validate_file accepts, the declared type that an
\* upload route passes to parse_resume is one of the supported types pdf, doc,
\* docx and txt, and no such upload fails in parse_resume with "Unsupported
\* file type".
AcceptedUploadHasSupportedType ==
    \A r \in DOMAIN requests :
        requests[r].route \in UploadRoutes =>
            /\ Lower(requests[r].file.subtype) \in SupportedTypes
            /\ requests[r].raised # "ValueError: Unsupported file type"

-----------------------------------------------------------------------------
(* The status of a new evaluation when its request returns *)

\* C28: every Evaluation that a request makes with status 'processing' is,
\* when that request has returned, a stored record with status 'completed' or
\* 'failed', also when scoring or feedback generation raised; no record is
\* left 'processing' by a request that has returned.
NewEvaluationLeavesProcessing ==
    /\ \A r \in DOMAIN requests :
           LET req == requests[r] IN
           (/\ req.route \in EvaluateRoutes \cup {BatchRoute}
            /\ req.pc = "done"
            /\ req.evaluation # PyNone) =>
               /\ req.evaluation.int \in DOMAIN evaluations
               /\ evaluations[req.evaluation.int].status \in {"completed", "failed"}
    /\ (\A r \in DOMAIN requests : requests[r].pc = "done") =>
           \A id \in DOMAIN evaluations : evaluations[id].status # "processing"

-----------------------------------------------------------------------------
(* Certification suggestions and the certification score *)

\* C29: for one resume and job the certification_suggestions are exactly the
\* required certifications that the certification score counts as unmatched:
\* a required certification that equals, contains or is contained in a
\* certification of the resume, lower-cased and stripped, is not suggested,
\* and every other one is suggested once.
SuggestionsAreTheUnmatchedCertifications ==
    \A bundle \in Bundles :
        LET required == job_data.certifications_required
            held == resume_data.certifications
            Unmatched(cert) ==
                \A i \in DOMAIN held :
                    ~SkillsOverlap(Strip(Lower(cert)), Strip(Lower(held[i])))
            suggested ==
                [i \in DOMAIN bundle.certification_suggestions |->
                    bundle.certification_suggestions[i].certification]
        IN  /\ suggested = SelectSeq(required, Unmatched)
            /\ required # <<>> =>
                   evaluation_data.certification_match_score =
                       Round2Pct(Rat(Len(required) - Len(suggested), Len(required)))

-----------------------------------------------------------------------------
(* The resources of a skill *)

\* the names of the resource dictionary
ResourceKeys ==
    {ResourceRecommendations[i].skill_name : i \in DOMAIN ResourceRecommendations}

\* C30: a skill whose lower-cased name equals a key of the resource
\* dictionary gets the resource list of that key as its courses, and a skill
\* that matches no key (neither contains a key nor is contained in one) gets
\* empty lists.
SkillGetsItsOwnResources ==
    \A bundle \in Bundles :
        \A i \in DOMAIN bundle.skill_improvements :
            LET improvement == bundle.skill_improvements[i]
                name == Lower(improvement.skill)
            IN  /\ \A k \in DOMAIN ResourceRecommendations :
                       ResourceRecommendations[k].skill_name = name =>
                           improvement.resources.courses =
                               ResourceRecommendations[k].resources
                /\ (\A key \in ResourceKeys :
                        ~IsSubstring(key, name) /\ ~IsSubstring(name, key)) =>
                       improvement.resources =
                           [courses |-> <<>>, books |-> <<>>, platforms |-> <<>>]

====
